---- MODULE Spec2Model ----
(***************************************************************************)
(* Model of pkg/monitoring MemoryMonitor (GetMemoryStats, GetMaxAlloc,     *)
(* SetAlertHandler) as called concurrently by request workers, the         *)
(* StartMonitoring loop and the memory-logging loop; of the two periodic   *)
(* loops, their cancellation by the shared context and the shutdown        *)
(* sequence of main.                                                       *)
(*                                                                         *)
(* Every goroutine is a process with a program counter; a step is one      *)
(* access to shared state (the RWMutex, maxAlloc, alertHandler, a channel, *)
(* the context).                                                           *)
(***************************************************************************)
EXTENDS Integers, FiniteSets, Sequences, TLC

\* ---------------------------------------------------------------- bounds
NumProcs == 2          \* goroutines calling into one monitor
MaxAlloc == 2          \* runtime.MemStats.Alloc ranges over 0..MaxAlloc
MaxTicks == 2          \* ticks a ticker delivers to its loop in one execution
MaxTime == 5           \* the clock and the time arguments range up to MaxTime
IntBits == 4           \* bits of an int64 and of a uint64 (64 in the program)

Procs == 1..NumProcs
AllocValues == 0..MaxAlloc
\* runtime.MemStats.Sys: below, equal to and above twice a positive Alloc.
SysValues == {1, 2}

\* alertThreshold as an exact fraction <<num, den>>, den > 0.  The values are
\* dyadic, so the float64 product of the source is exact on the model's range.
Thresholds == {<<0 - 1, 2>>, <<0, 1>>, <<1, 2>>}

\* func(MemoryStats) values; "nil" is the zero value of the field.
Nil == "nil"
Handlers == {"h1", "h2"}
HandlerValues == Handlers \cup {Nil}

\* No SetAlertHandler has returned since the last one began.
NoWindow == "none"

\* Request workers running the middleware chain.
Workers == {1}

\* What a route handler returns through c.Next(): nil or an error.
StageResults == {Nil, "ErrNotFound", "ErrInternal"}

\* Clients of the user usecase, the emails they use, and the ids the users
\* table hands out.
Clients == {1, 2}
Emails == {"a@x", "b@x"}
UserIDs == {1, 2, 3}

\* The goroutines of the two periodic loops started by main, next to the
\* request workers Procs.
MonitorLoop == NumProcs + 1
LoggerLoop == NumProcs + 2
Loops == {MonitorLoop, LoggerLoop}
Goroutines == Procs \cup Loops

\* monitoring.NewMemoryMonitor(0.8) of newApp, as a fraction.
AppThreshold == <<4, 5>>

\* Samples the application's goroutines draw: one below 0.8 * Sys, one above.
AppSamples == {[Alloc |-> 0, Sys |-> 1], [Alloc |-> 1, Sys |-> 1]}

\* The loop was not blocked in its select when the context was cancelled.
NotWaiting == 0 - 1

\* Instants, in halves of a millisecond. time.Time{} is 0, the clock starts
\* at MinTime, and MinTime stands for minus infinity in range queries.
MinTime == 2
Times == MinTime..MaxTime

\* The call before the last one was not a DeleteOlderThan.
NoCutoff == 0

VARIABLES
    maxAlloc,        \* m.maxAlloc
    alertThreshold,  \* m.alertThreshold, fixed by NewMemoryMonitor
    alertHandler,    \* m.alertHandler
    mu,              \* m.mu: [readers |-> set of holders of RLock,
                     \*        writer  |-> goroutine that called Lock, or 0]
    pc,              \* position of each goroutine
    ms,              \* per goroutine: the sample read by runtime.ReadMemStats
    hArg,            \* per goroutine: argument of SetAlertHandler
    hSeen,           \* per goroutine: m.alertHandler as read by the nil check
    invoking,        \* per goroutine: handler value being run
    invoked,         \* per goroutine: handler invocations of the current call
    ret,             \* per goroutine: value read by GetMaxAlloc
    maxReturned,     \* history kept by the observing specifications: largest
                     \* Alloc returned by a completed GetMemoryStats
    srcLast,         \* state of the strictly increasing stats source (SpecInc)
    settled,         \* history: handler of the last returned SetAlertHandler,
                     \* NoWindow once another SetAlertHandler is in progress
    ctxDone,         \* app.ctx is cancelled (ctx.Done() is closed)
    tickC,           \* per loop: ticker.C holds a tick (the channel buffers one)
    lpc,             \* per loop: position of the loop goroutine
    received,        \* per loop: ticks received from ticker.C
    calls,           \* per loop: GetMemoryStats calls begun
    attempts,        \* memoryLogRepo.Create calls begun by the logging loop
    stats,           \* the logging loop's stats: the snapshot of its call
    memoryLog,       \* the logging loop's memoryLog: the entry it built
    lastCreate,      \* outcome of the last returned memoryLogRepo.Create
    cancelAt,        \* history, per loop: received[l] when the context was
                     \* cancelled with the loop blocked in select, or NotWaiting
    fired,           \* history, per loop: the ticker fired after cancellation
    mpc,             \* position of the main goroutine
    notified,        \* signal.Notify(sigChan, SIGINT, SIGTERM) has been called
    sigChan,         \* sigChan holds a signal
    sigServing,      \* history: a signal arrived while Listen was serving
    mongoOpen,       \* the MongoDB client is connected
    rpc,             \* per request worker: position in the middleware chain
    stageRet,        \* per worker: error value returned by the route handler
    sgRet,           \* per worker: value returned by SimpleGoroutineMiddleware
    mmRet,           \* per worker: value returned by MemoryMiddleware
    before,          \* per worker: Alloc of MemoryMiddleware's first snapshot
    after,           \* per worker: Alloc of MemoryMiddleware's second snapshot
    outer,           \* the hook registered first: "memory" or "goroutine"
    mmCalls,         \* per worker: GetMemoryStats calls MemoryMiddleware has
                     \* begun for the request
    hdr,             \* per worker: for each header of the response, the hook
                     \* that set it last and how often it was set
    logs,            \* the memory_logs collection: documents [id, ts]
    clock,           \* the last value time.Now() returned to the repository
    last,            \* history: the last repository call and its result
    prevCutoff,      \* history: cutoff of the DeleteOlderThan call just before
                     \* the last call, NoCutoff if that was another call
    users,           \* the users table: rows [id, email]
    nextUid,         \* the next value of the table's id sequence
    upc,             \* per client: position inside a usecase call
    uarg,            \* per client: the id and email the call carries
    uresp,           \* per client: what the last CreateHandler call found,
                     \* the error CreateUser returned and the HTTP status
    fb,              \* a FormatBytes call: its argument and what it returned
    hc,              \* per worker: position inside MemoryHealthCheckHandler,
                     \* the Alloc of its snapshot and the maxAlloc it read
    md,              \* MemoryMiddleware's memoryDiff: the two Alloc values, the
                     \* difference computed and the header text
    conn             \* a NewMongo or NewDatabase call: the loop counter, err,
                     \* what it logged, how long it slept and what it returned

monVars == <<maxAlloc, alertThreshold, alertHandler, mu, pc, ms, hArg, hSeen,
             invoking, invoked, ret, maxReturned, srcLast, settled>>
loopVars == <<ctxDone, tickC, lpc, received, calls, attempts, lastCreate,
              cancelAt, fired, stats, memoryLog>>
mainVars == <<mpc, notified, sigChan, sigServing, mongoOpen>>
reqVars == <<rpc, stageRet, sgRet, mmRet, before, after, outer, mmCalls, hdr>>
logVars == <<logs, clock, last, prevCutoff>>
userVars == <<users, nextUid, upc, uarg, uresp>>
fnVars == <<fb, md, hc, conn>>

\* What the loops and main never touch.
restVars == <<reqVars, logVars, userVars, fnVars>>

vars == <<monVars, loopVars, mainVars, reqVars, logVars, userVars, fnVars>>

NoSample == [Alloc |-> 0, Sys |-> 1]

\* What runtime.MemStats and runtime.NumGoroutine report next to Alloc and
\* Sys when the logging loop takes its snapshot: a value for each field that
\* no other field of the snapshot has.
AppCounters ==
    {[TotalAlloc |-> 2, NumGC |-> 3, GCCPUFraction |-> 4, NumGoroutine |-> 5]}

\* The logging loop is outside the tick case: stats and memoryLog do not exist.
NoStats == [Alloc |-> 0]

\* ------------------------------------------------------------ construction
\* NewMemoryMonitor(alertThreshold): maxAlloc 0, alertHandler nil, mu unlocked.
NewMemoryMonitor(t) ==
    /\ alertThreshold = t
    /\ maxAlloc = 0
    /\ alertHandler = Nil
    /\ mu = [readers |-> {}, writer |-> 0]

\* No goroutine has entered the monitor.
InitGoroutines ==
    /\ pc = [p \in Goroutines |-> "idle"]
    /\ ms = [p \in Goroutines |-> NoSample]
    /\ hArg = [p \in Goroutines |-> Nil]
    /\ hSeen = [p \in Goroutines |-> Nil]
    /\ invoking = [p \in Goroutines |-> Nil]
    /\ invoked = [p \in Goroutines |-> 0]
    /\ ret = [p \in Goroutines |-> 0]
    /\ maxReturned = 0
    /\ srcLast = 0
    /\ settled = NoWindow

\* context.WithCancel(context.Background()) and the loops at position at.
InitLoops(at) ==
    /\ ctxDone = FALSE
    /\ tickC = [l \in Loops |-> FALSE]
    /\ lpc = [l \in Loops |-> at]
    /\ received = [l \in Loops |-> 0]
    /\ calls = [l \in Loops |-> 0]
    /\ attempts = 0
    /\ lastCreate = "none"
    /\ cancelAt = [l \in Loops |-> NotWaiting]
    /\ fired = [l \in Loops |-> FALSE]
    /\ stats = NoStats
    /\ memoryLog = NoStats

\* main at position at, initializeApp having connected to MongoDB.
InitMain(at) ==
    /\ mpc = at
    /\ notified = FALSE
    /\ sigChan = FALSE
    /\ sigServing = FALSE
    /\ mongoOpen = TRUE

\* The response headers of the two hooks.
MemoryHeaders ==
    {"X-Memory-Before", "X-Memory-After", "X-Memory-Diff",
     "X-Request-Duration", "X-Num-Goroutines"}

\* Variant: SimpleGoroutineMiddleware reports its count under a name of
\* MemoryMiddleware.
GoroutineHeadersClash ==
    {"X-Goroutines-Before", "X-Num-Goroutines", "X-Goroutines-Diff"}

GoroutineHeaders ==
    {"X-Goroutines-Before", "X-Goroutines-After", "X-Goroutines-Diff"}

HeaderNames == MemoryHeaders \cup GoroutineHeaders

\* A response on which neither hook has set a header.
NoHeaders == [n \in HeaderNames |-> [by |-> "none", sets |-> 0]]

\* No request is being served; the hooks are registered in the order chain.
InitChain(chain) ==
    /\ outer \in chain
    /\ mmCalls = [w \in Workers |-> 0]
    /\ hdr = [w \in Workers |-> NoHeaders]
    /\ rpc = [w \in Workers |-> "idle"]
    /\ stageRet = [w \in Workers |-> Nil]
    /\ sgRet = [w \in Workers |-> Nil]
    /\ mmRet = [w \in Workers |-> Nil]
    /\ before = [w \in Workers |-> 0]
    /\ after = [w \in Workers |-> 0]

\* The order of newApp: MemoryMiddleware first.
InitRequests == InitChain({"memory"})

\* An empty memory_logs collection, no repository call made.
InitLogs ==
    /\ logs = {}
    /\ clock = MinTime
    /\ last = [op |-> "none"]
    /\ prevCutoff = NoCutoff

\* An empty users table, no usecase call in progress.
InitUsers ==
    /\ users = {}
    /\ nextUid = 1
    /\ upc = [c \in Clients |-> "idle"]
    /\ uarg = [c \in Clients |-> [id |-> 0, email |-> ""]]
    /\ uresp = [c \in Clients |-> [found |-> FALSE, err |-> Nil, status |-> 0]]

\* Neither NewMongo nor NewDatabase is running.
NoCall ==
    [fn |-> "", pos |-> "idle", i |-> 0, err |-> Nil, ok |-> {}, tries |-> 0,
     logged |-> <<>>, slept |-> <<>>, ret |-> ""]

\* No health check is being served.
InitCalls ==
    /\ hc = [w \in Workers |-> [pos |-> "idle", alloc |-> 0, maxAlloc |-> 0]]

\* No pure function has been called.
InitFn ==
    /\ fb = [in |-> <<0>>, out |-> [text |-> "", prefix |-> ""]]
    /\ md = [before |-> 0, after |-> 0, diff |-> 0, text |-> ""]
    /\ InitCalls
    /\ conn = NoCall

InitRest == InitRequests /\ InitLogs /\ InitUsers /\ InitFn

\* A monitor of any threshold, before any goroutine calls it.
Init ==
    /\ \E t \in Thresholds : NewMemoryMonitor(t)
    /\ InitGoroutines
    /\ InitLoops("unstarted")
    /\ InitMain("start_mon")
    /\ InitRest

\* ------------------------------------------------------------ sync.RWMutex
\* Variant: the lock admits one holder at a time, readers included.
CanRLockExclusive == mu.writer = 0 /\ mu.readers = {}

\* RLock blocks while a writer holds the lock or has called Lock and waits.
CanRLock == mu.writer = 0

\* Lock first excludes other writers and announces itself to new readers...
CanLockAnnounce == mu.writer = 0

\* Variant: the writer does not wait for the active readers.
CanLockAcquireNoWait(p) == mu.writer = p

\* ...then waits for the active readers to leave.
CanLockAcquire(p) == mu.writer = p /\ mu.readers = {}

\* --------------------------------------------------------- GetMemoryStats
Max(a, b) == IF a > b THEN a ELSE b

\* Variant: the running maximum is compared instead of the current sample.
ThresholdCrossedPeak(t, s) == t[1] > 0 /\ maxAlloc * t[2] > t[1] * s.Sys

\* Variant: the threshold is not required to be positive.
ThresholdCrossedAnySign(t, s) == s.Alloc * t[2] > t[1] * s.Sys

\* m.alertThreshold > 0 && float64(ms.Alloc) > m.alertThreshold*float64(ms.Sys)
ThresholdCrossed(t, s) == t[1] > 0 /\ s.Alloc * t[2] > t[1] * s.Sys

\* Variant: the field is overwritten by every differing sample.
ExceedsMaxAlways(a, m) == a # m

\* ms.Alloc > m.maxAlloc
ExceedsMax(a, m) == a > m

\* runtime.ReadMemStats(&ms): the sample is taken before any lock is held.
ReadMemStats(p, a, s) ==
    /\ pc[p] = "idle"
    /\ pc' = [pc EXCEPT ![p] = "gms_rlock"]
    /\ ms' = [ms EXCEPT ![p] = [Alloc |-> a, Sys |-> s]]
    /\ UNCHANGED <<maxAlloc, alertThreshold, alertHandler, mu, hArg, hSeen,
                   invoking, invoked, ret, maxReturned, settled>>

\* A call whose stats source may report any value.
GMS_ReadMemStats(p) ==
    /\ \E a \in AllocValues, s \in SysValues : ReadMemStats(p, a, s)
    /\ UNCHANGED srcLast

\* A call whose stats source reports a strictly larger Alloc on every call.
GMS_ReadMemStatsInc(p) ==
    \E a \in AllocValues, s \in SysValues :
        /\ a > srcLast
        /\ ReadMemStats(p, a, s)
        /\ srcLast' = a

\* m.mu.RLock()
GMS_RLock(p) ==
    /\ pc[p] = "gms_rlock"
    /\ CanRLock
    /\ mu' = [mu EXCEPT !.readers = @ \cup {p}]
    /\ pc' = [pc EXCEPT ![p] = "gms_cmp"]
    /\ UNCHANGED <<maxAlloc, alertThreshold, alertHandler, ms, hArg, hSeen,
                   invoking, invoked, ret, maxReturned, srcLast, settled>>

\* if ms.Alloc > m.maxAlloc: the read of m.maxAlloc.
GMS_Compare(p) ==
    /\ pc[p] = "gms_cmp"
    /\ pc' = [pc EXCEPT ![p] = IF ExceedsMax(ms[p].Alloc, maxAlloc)
                               THEN "gms_write" ELSE "gms_alert"]
    /\ UNCHANGED <<maxAlloc, alertThreshold, alertHandler, mu, ms, hArg, hSeen,
                   invoking, invoked, ret, maxReturned, srcLast, settled>>

\* m.maxAlloc = ms.Alloc
GMS_Write(p) ==
    /\ pc[p] = "gms_write"
    /\ maxAlloc' = ms[p].Alloc
    /\ pc' = [pc EXCEPT ![p] = "gms_alert"]
    /\ UNCHANGED <<alertThreshold, alertHandler, mu, ms, hArg, hSeen,
                   invoking, invoked, ret, maxReturned, srcLast, settled>>

\* The threshold condition and the nil check of m.alertHandler.
GMS_AlertCheck(p) ==
    /\ pc[p] = "gms_alert"
    /\ hSeen' = [hSeen EXCEPT ![p] = alertHandler]
    /\ pc' = [pc EXCEPT ![p] =
                IF ThresholdCrossed(alertThreshold, ms[p]) /\ alertHandler # Nil
                THEN "gms_call" ELSE "gms_runlock"]
    /\ UNCHANGED <<maxAlloc, alertThreshold, alertHandler, mu, ms, hArg,
                   invoking, invoked, ret, maxReturned, srcLast, settled>>

\* m.alertHandler(stats): the field is read again and called; calling a nil
\* func panics.
GMS_Invoke(p) ==
    /\ pc[p] = "gms_call"
    /\ invoking' = [invoking EXCEPT ![p] = alertHandler]
    /\ invoked' = [invoked EXCEPT ![p] = IF alertHandler = Nil THEN @ ELSE @ + 1]
    /\ pc' = [pc EXCEPT ![p] = IF alertHandler = Nil
                               THEN "gms_panic" ELSE "gms_handler"]
    /\ UNCHANGED <<maxAlloc, alertThreshold, alertHandler, mu, ms, hArg, hSeen,
                   ret, maxReturned, srcLast, settled>>

\* The handler returns to GetMemoryStats.
GMS_HandlerReturn(p) ==
    /\ pc[p] = "gms_handler"
    /\ pc' = [pc EXCEPT ![p] = "gms_runlock"]
    /\ UNCHANGED <<maxAlloc, alertThreshold, alertHandler, mu, ms, hArg, hSeen,
                   invoking, invoked, ret, maxReturned, srcLast, settled>>

\* The handler calls GetMaxAlloc of the monitor it is registered on.
H_GetMaxAlloc(p) ==
    /\ pc[p] = "gms_handler"
    /\ pc' = [pc EXCEPT ![p] = "h_rlock"]
    /\ UNCHANGED <<maxAlloc, alertThreshold, alertHandler, mu, ms, hArg, hSeen,
                   invoking, invoked, ret, maxReturned, srcLast, settled>>

\* m.mu.RLock() of that GetMaxAlloc: a second read lock of the goroutine,
\* which blocks like any other while a writer holds the lock or waits.
H_RLock(p) ==
    /\ pc[p] = "h_rlock"
    /\ CanRLock
    /\ pc' = [pc EXCEPT ![p] = "h_read"]
    /\ UNCHANGED <<maxAlloc, alertThreshold, alertHandler, mu, ms, hArg, hSeen,
                   invoking, invoked, ret, maxReturned, srcLast, settled>>

\* That GetMaxAlloc reads m.maxAlloc and releases its read lock, the
\* goroutine still holding the one of GetMemoryStats; the handler returns.
H_Return(p) ==
    /\ pc[p] = "h_read"
    /\ pc' = [pc EXCEPT ![p] = "gms_runlock"]
    /\ UNCHANGED <<maxAlloc, alertThreshold, alertHandler, mu, ms, hArg, hSeen,
                   invoking, invoked, ret, maxReturned, srcLast, settled>>

\* The handler panics: GetMemoryStats has no recover, so the deferred
\* m.mu.RUnlock() runs and the panic goes on unwinding in the caller.
GMS_HandlerPanic(p) ==
    /\ pc[p] = "gms_handler"
    /\ mu' = [mu EXCEPT !.readers = @ \ {p}]
    /\ pc' = [pc EXCEPT ![p] = "panicking"]
    /\ UNCHANGED <<maxAlloc, alertThreshold, alertHandler, ms, hArg, hSeen,
                   invoking, invoked, ret, maxReturned, srcLast, settled>>

\* Variant: the call returns without releasing its read lock.
ReturnHoldingLock(p) ==
    /\ pc[p] = "gms_runlock"
    /\ pc' = [pc EXCEPT ![p] = "idle"]
    /\ ms' = [ms EXCEPT ![p] = NoSample]
    /\ hSeen' = [hSeen EXCEPT ![p] = Nil]
    /\ invoking' = [invoking EXCEPT ![p] = Nil]
    /\ invoked' = [invoked EXCEPT ![p] = 0]
    /\ UNCHANGED <<maxAlloc, alertThreshold, alertHandler, mu, hArg, ret,
                   srcLast, settled>>

\* return stats, running the deferred m.mu.RUnlock().
Return(p) ==
    /\ pc[p] = "gms_runlock"
    /\ mu' = [mu EXCEPT !.readers = @ \ {p}]
    /\ pc' = [pc EXCEPT ![p] = "idle"]
    /\ ms' = [ms EXCEPT ![p] = NoSample]
    /\ hSeen' = [hSeen EXCEPT ![p] = Nil]
    /\ invoking' = [invoking EXCEPT ![p] = Nil]
    /\ invoked' = [invoked EXCEPT ![p] = 0]
    /\ UNCHANGED <<maxAlloc, alertThreshold, alertHandler, hArg, ret,
                   srcLast, settled>>

\* The return, its value not recorded.
GMS_RUnlock(p) == Return(p) /\ UNCHANGED maxReturned

\* The return, with the caller's view of the returned Alloc recorded.
GMS_RUnlockObserved(p) ==
    /\ Return(p)
    /\ maxReturned' = Max(maxReturned, ms[p].Alloc)

\* -------------------------------------------------------------- GetMaxAlloc
GMA_Call(p) ==
    /\ pc[p] = "idle"
    /\ pc' = [pc EXCEPT ![p] = "gma_rlock"]
    /\ UNCHANGED <<maxAlloc, alertThreshold, alertHandler, mu, ms, hArg, hSeen,
                   invoking, invoked, ret, maxReturned, srcLast, settled>>

\* m.mu.RLock()
GMA_RLock(p) ==
    /\ pc[p] = "gma_rlock"
    /\ CanRLock
    /\ mu' = [mu EXCEPT !.readers = @ \cup {p}]
    /\ pc' = [pc EXCEPT ![p] = "gma_read"]
    /\ UNCHANGED <<maxAlloc, alertThreshold, alertHandler, ms, hArg, hSeen,
                   invoking, invoked, ret, maxReturned, srcLast, settled>>

\* return m.maxAlloc: the read of the field.
GMA_Read(p) ==
    /\ pc[p] = "gma_read"
    /\ ret' = [ret EXCEPT ![p] = maxAlloc]
    /\ pc' = [pc EXCEPT ![p] = "gma_runlock"]
    /\ UNCHANGED <<maxAlloc, alertThreshold, alertHandler, mu, ms, hArg, hSeen,
                   invoking, invoked, maxReturned, srcLast, settled>>

\* The deferred m.mu.RUnlock(); the caller has the value.
GMA_RUnlock(p) ==
    /\ pc[p] = "gma_runlock"
    /\ mu' = [mu EXCEPT !.readers = @ \ {p}]
    /\ ret' = [ret EXCEPT ![p] = 0]
    /\ pc' = [pc EXCEPT ![p] = "idle"]
    /\ UNCHANGED <<maxAlloc, alertThreshold, alertHandler, ms, hArg, hSeen,
                   invoking, invoked, maxReturned, srcLast, settled>>

\* ---------------------------------------------------------- SetAlertHandler
InSetAlertHandler(p) == pc[p] \in {"sah_lock", "sah_wait", "sah_write", "sah_unlock"}

SAH_Call(p) ==
    /\ pc[p] = "idle"
    /\ \E h \in HandlerValues : hArg' = [hArg EXCEPT ![p] = h]
    /\ pc' = [pc EXCEPT ![p] = "sah_lock"]
    /\ settled' = NoWindow
    /\ UNCHANGED <<maxAlloc, alertThreshold, alertHandler, mu, ms, hSeen,
                   invoking, invoked, ret, maxReturned, srcLast>>

\* m.mu.Lock(): take the writers' mutex and announce the writer to readers.
SAH_LockAnnounce(p) ==
    /\ pc[p] = "sah_lock"
    /\ CanLockAnnounce
    /\ mu' = [mu EXCEPT !.writer = p]
    /\ pc' = [pc EXCEPT ![p] = "sah_wait"]
    /\ UNCHANGED <<maxAlloc, alertThreshold, alertHandler, ms, hArg, hSeen,
                   invoking, invoked, ret, maxReturned, srcLast, settled>>

\* m.mu.Lock(): the active readers have left.
SAH_LockAcquire(p) ==
    /\ pc[p] = "sah_wait"
    /\ CanLockAcquire(p)
    /\ pc' = [pc EXCEPT ![p] = "sah_write"]
    /\ UNCHANGED <<maxAlloc, alertThreshold, alertHandler, mu, ms, hArg, hSeen,
                   invoking, invoked, ret, maxReturned, srcLast, settled>>

\* m.alertHandler = handler
SAH_Write(p) ==
    /\ pc[p] = "sah_write"
    /\ alertHandler' = hArg[p]
    /\ pc' = [pc EXCEPT ![p] = "sah_unlock"]
    /\ UNCHANGED <<maxAlloc, alertThreshold, mu, ms, hArg, hSeen,
                   invoking, invoked, ret, maxReturned, srcLast, settled>>

\* The deferred m.mu.Unlock(); the call returns.
SAH_Unlock(p) ==
    /\ pc[p] = "sah_unlock"
    /\ mu' = [mu EXCEPT !.writer = 0]
    /\ settled' = IF \E q \in Procs \ {p} : InSetAlertHandler(q)
                  THEN NoWindow ELSE hArg[p]
    /\ hArg' = [hArg EXCEPT ![p] = Nil]
    /\ pc' = [pc EXCEPT ![p] = "idle"]
    /\ UNCHANGED <<maxAlloc, alertThreshold, alertHandler, ms, hSeen,
                   invoking, invoked, ret, maxReturned, srcLast>>

\* ----------------------------------------------------------- periodic loops
\* newApp: NewMemoryMonitor(0.8), then SetAlertHandler of the logging handler.
NewApp ==
    /\ alertThreshold = AppThreshold
    /\ maxAlloc = 0
    /\ alertHandler = "h1"
    /\ mu = [readers |-> {}, writer |-> 0]

\* The process runs: main has neither returned nor been terminated.
Alive == mpc \notin {"exited", "killed"}

\* Variant: closing ctx.Done() does not wake a goroutine blocked in select.
AfterCancelStillParked(l) == lpc[l]

\* Closing ctx.Done() wakes a goroutine blocked in select with that case.
AfterCancel(l) == IF lpc[l] = "parked" THEN "woken_done" ELSE lpc[l]

\* cancel(): closes ctx.Done(); a second call does nothing.
CancelCtx ==
    /\ ctxDone' = TRUE
    /\ lpc' = IF ctxDone THEN lpc ELSE [l \in Loops |-> AfterCancel(l)]
    /\ cancelAt' = IF ctxDone THEN cancelAt
                   ELSE [l \in Loops |-> IF lpc[l] = "parked"
                                         THEN received[l] ELSE cancelAt[l]]

\* The ticker of loop l fires: the tick goes to the goroutine blocked in
\* select, or into the one-slot channel; with the slot full it is dropped.
TickFire(l) ==
    /\ Alive
    /\ lpc[l] \notin {"unstarted", "returned"}
    /\ ~tickC[l]
    /\ received[l] < MaxTicks
    /\ IF lpc[l] = "parked"
       THEN /\ lpc' = [lpc EXCEPT ![l] = "tick"]
            /\ received' = [received EXCEPT ![l] = @ + 1]
            /\ UNCHANGED tickC
       ELSE /\ tickC' = [tickC EXCEPT ![l] = TRUE]
            /\ UNCHANGED <<lpc, received,
                   stats, memoryLog>>
    /\ fired' = [fired EXCEPT ![l] = @ \/ ctxDone]
    /\ UNCHANGED <<restVars, monVars, ctxDone, calls, attempts, lastCreate, cancelAt,
                   mainVars,
                   stats, memoryLog>>

\* Variant: the Done case of the select is ready without a cancellation.
DoneReadyAlways == TRUE

\* <-ctx.Done() can proceed: the channel is closed.
DoneReady == ctxDone

\* case <-ctx.Done(): return (the deferred ticker.Stop() runs).
LoopSelectDone(l) ==
    /\ Alive
    /\ lpc[l] \in {"select", "woken_done"}
    /\ DoneReady
    /\ lpc' = [lpc EXCEPT ![l] = "returned"]
    /\ UNCHANGED <<restVars, monVars, ctxDone, tickC, received, calls, attempts,
                   lastCreate, cancelAt, fired, mainVars,
                   stats, memoryLog>>

\* case <-ticker.C: with both cases ready select takes either.
LoopSelectTick(l) ==
    /\ Alive
    /\ lpc[l] = "select"
    /\ tickC[l]
    /\ tickC' = [tickC EXCEPT ![l] = FALSE]
    /\ received' = [received EXCEPT ![l] = @ + 1]
    /\ lpc' = [lpc EXCEPT ![l] = "tick"]
    /\ UNCHANGED <<restVars, monVars, ctxDone, calls, attempts, lastCreate, cancelAt,
                   fired, mainVars,
                   stats, memoryLog>>

\* select with no case ready: the goroutine blocks.
LoopPark(l) ==
    /\ Alive
    /\ lpc[l] = "select"
    /\ ~DoneReady /\ ~tickC[l]
    /\ lpc' = [lpc EXCEPT ![l] = "parked"]
    /\ UNCHANGED <<restVars, monVars, ctxDone, tickC, received, calls, attempts,
                   lastCreate, cancelAt, fired, mainVars,
                   stats, memoryLog>>

\* stats := MemoryStats{Alloc: ms.Alloc, TotalAlloc: ms.TotalAlloc, ...}
MemoryStats(s, c) ==
    [Alloc |-> s.Alloc, TotalAlloc |-> c.TotalAlloc, Sys |-> s.Sys,
     NumGC |-> c.NumGC, GCCPUFraction |-> c.GCCPUFraction,
     NumGoroutine |-> c.NumGoroutine]

\* m.GetMemoryStats() / app.memoryMonitor.GetMemoryStats() of the tick case.
LoopCall(l) ==
    /\ Alive
    /\ lpc[l] = "tick"
    /\ \E s \in AppSamples, c \in AppCounters :
          /\ ReadMemStats(l, s.Alloc, s.Sys)
          /\ stats' = IF l = LoggerLoop THEN MemoryStats(s, c) ELSE stats
    /\ lpc' = [lpc EXCEPT ![l] = "gms"]
    /\ calls' = [calls EXCEPT ![l] = @ + 1]
    /\ UNCHANGED <<restVars, srcLast, ctxDone, tickC, received, attempts, lastCreate,
                   cancelAt, fired, mainVars, memoryLog>>

\* StartMonitoring discards the result and selects again.
MonitorLoopReturn ==
    /\ Alive
    /\ lpc[MonitorLoop] = "gms"
    /\ Return(MonitorLoop)
    /\ lpc' = [lpc EXCEPT ![MonitorLoop] = "select"]
    /\ UNCHANGED <<restVars, maxReturned, ctxDone, tickC, received, calls, attempts,
                   lastCreate, cancelAt, fired, mainVars,
                   stats, memoryLog>>

\* Variant: the entry's TotalAlloc is taken from the snapshot's Alloc.
MemoryLogTotalFromAlloc(st) ==
    [ID |-> "", Timestamp |-> 0, Alloc |-> st.Alloc, TotalAlloc |-> st.Alloc,
     Sys |-> st.Sys, NumGC |-> st.NumGC, GCCPUFraction |-> st.GCCPUFraction,
     NumGoroutine |-> st.NumGoroutine]

\* memoryLog := &entity.MemoryLog{Alloc: stats.Alloc, ...}: ID and Timestamp
\* keep their zero values.
MemoryLog(st) ==
    [ID |-> "", Timestamp |-> 0, Alloc |-> st.Alloc,
     TotalAlloc |-> st.TotalAlloc, Sys |-> st.Sys, NumGC |-> st.NumGC,
     GCCPUFraction |-> st.GCCPUFraction, NumGoroutine |-> st.NumGoroutine]

\* The logging loop logs the stats, builds the entity.MemoryLog and calls
\* app.memoryLogRepo.Create, which is then waiting for MongoDB.
LoggerLoopReturn ==
    /\ Alive
    /\ lpc[LoggerLoop] = "gms"
    /\ Return(LoggerLoop)
    /\ lpc' = [lpc EXCEPT ![LoggerLoop] = "create"]
    /\ attempts' = attempts + 1
    /\ memoryLog' = MemoryLog(stats)
    /\ UNCHANGED <<restVars, maxReturned, ctxDone, tickC, received, calls, lastCreate,
                   cancelAt, fired, mainVars, stats>>

\* Variant: the loop returns when Create returned an error.
AfterCreateStopOnError(err) == IF err THEN "returned" ELSE "select"

\* if err := Create(memoryLog); err != nil { log.Printf(...) }: the loop
\* goes on to its next select either way.
AfterCreate(err) == "select"

\* Create returns, with an error or without.
CreateReturns ==
    /\ Alive
    /\ lpc[LoggerLoop] = "create"
    /\ \E err \in BOOLEAN :
          /\ lastCreate' = IF err THEN "err" ELSE "ok"
          /\ lpc' = [lpc EXCEPT ![LoggerLoop] = AfterCreate(err)]
    /\ stats' = NoStats
    /\ memoryLog' = NoStats
    /\ UNCHANGED <<restVars, monVars, ctxDone, tickC, received, calls, attempts,
                   cancelAt, fired, mainVars>>

\* Some holder of the cancel function cancels the context.
Cancel ==
    /\ Alive
    /\ ~ctxDone
    /\ CancelCtx
    /\ UNCHANGED <<restVars, monVars, tickC, received, calls, attempts, lastCreate,
                   fired, mainVars,
                   stats, memoryLog>>

\* ---------------------------------------------------------------------- main
\* app.startMemoryMonitoring(): go StartMonitoring(app.ctx, 30*time.Second)
GoStartMonitoring ==
    /\ mpc = "start_mon"
    /\ lpc' = [lpc EXCEPT ![MonitorLoop] = "select"]
    /\ mpc' = "start_log"
    /\ UNCHANGED <<restVars, monVars, ctxDone, tickC, received, calls, attempts,
                   lastCreate, cancelAt, fired, notified, sigChan, sigServing,
                   mongoOpen,
                   stats, memoryLog>>

\* app.startMemoryLogging(): go func() {...}(); then setupRoutes, printRoutes
\* and startServer, which blocks in fiberApp.Listen.
GoStartMemoryLogging ==
    /\ mpc = "start_log"
    /\ lpc' = [lpc EXCEPT ![LoggerLoop] = "select"]
    /\ mpc' = "listen"
    /\ UNCHANGED <<restVars, monVars, ctxDone, tickC, received, calls, attempts,
                   lastCreate, cancelAt, fired, notified, sigChan, sigServing,
                   mongoOpen,
                   stats, memoryLog>>

\* Listen returns an error: log.Fatal exits the process; deferred calls of
\* main do not run.
ListenFails ==
    /\ mpc = "listen"
    /\ mpc' = "exited"
    /\ UNCHANGED <<restVars, monVars, loopVars, notified, sigChan, sigServing, mongoOpen>>

\* Listen returns nil (the server was shut down): main goes on to
\* waitForShutdown.
ListenReturnsNil ==
    /\ mpc = "listen"
    /\ mpc' = "notify"
    /\ UNCHANGED <<restVars, monVars, loopVars, notified, sigChan, sigServing, mongoOpen>>

\* signal.Notify(sigChan, syscall.SIGINT, syscall.SIGTERM)
SignalNotify ==
    /\ mpc = "notify"
    /\ notified' = TRUE
    /\ mpc' = "wait_sig"
    /\ UNCHANGED <<restVars, monVars, loopVars, sigChan, sigServing, mongoOpen>>

\* SIGINT or SIGTERM is delivered to the process: into sigChan once
\* signal.Notify has been called, and with the default disposition, which
\* terminates the process at once, before that.
Signal ==
    /\ Alive
    /\ ~sigChan
    /\ sigServing' = (sigServing \/ mpc = "listen")
    /\ IF notified
       THEN sigChan' = TRUE /\ UNCHANGED mpc
       ELSE mpc' = "killed" /\ UNCHANGED sigChan
    /\ UNCHANGED <<restVars, monVars, loopVars, notified, mongoOpen>>

\* <-sigChan; app.cancel()
ReceiveSignal ==
    /\ mpc = "wait_sig"
    /\ sigChan
    /\ sigChan' = FALSE
    /\ CancelCtx
    /\ mpc' = "sleep"
    /\ UNCHANGED <<restVars, monVars, tickC, received, calls, attempts, lastCreate,
                   fired, notified, sigServing, mongoOpen,
                   stats, memoryLog>>

\* What can keep a loop goroutine busy for longer than the two seconds of
\* grace: the MongoDB round trip of Create and the alert handler.
OutlastsGrace(l) == lpc[l] = "create" \/ pc[l] = "gms_handler"

\* time.Sleep(2 * time.Second) ends and waitForShutdown returns; every loop
\* has returned by then unless something keeps it longer.
SleepDone ==
    /\ mpc = "sleep"
    /\ \A l \in Loops : lpc[l] = "returned" \/ OutlastsGrace(l)
    /\ mpc' = "cleanup"
    /\ UNCHANGED <<restVars, monVars, loopVars, notified, sigChan, sigServing, mongoOpen>>

\* The deferred app.cleanup(): app.mongo.Close(); app.cancel(); main returns.
Cleanup ==
    /\ mpc = "cleanup"
    /\ mongoOpen' = FALSE
    /\ CancelCtx
    /\ mpc' = "exited"
    /\ UNCHANGED <<restVars, monVars, tickC, received, calls, attempts, lastCreate,
                   fired, notified, sigChan, sigServing,
                   stats, memoryLog>>

\* ----------------------------------------------------------------- requests
\* newApp registers MemoryMiddleware before SimpleGoroutineMiddleware, so for
\* a request c.Next() of the first runs the second, whose c.Next() runs the
\* route handler. outer is the hook registered first.

\* Variant: the middleware returns nil whatever the wrapped stage returned.
PassThroughNil(err) == Nil

\* err := c.Next(); ...; return err
PassThrough(err) == err

\* fiber runs the hooks in the order of their registration: the position a
\* request takes when it arrives, when a hook calls c.Next(), and when the
\* route handler or a hook returns.
Chain(step) ==
    CASE step = "accept" ->
            IF outer = "memory" THEN "mm_enter" ELSE "sg_before"
      [] step = "memory_next" ->
            IF outer = "memory" THEN "sg_before" ELSE "stage"
      [] step = "goroutine_next" ->
            IF outer = "memory" THEN "stage" ELSE "mm_enter"
      [] step = "stage_return" ->
            IF outer = "memory" THEN "sg_after" ELSE "mm_resume"
      [] step = "goroutine_return" ->
            IF outer = "memory" THEN "mm_resume" ELSE "done"
      [] step = "memory_return" ->
            IF outer = "memory" THEN "done" ELSE "sg_after"

\* c.Response().Header.Set(name, ...) for each name of names, by hook.
HeaderSet(h, names, hook) ==
    [n \in HeaderNames |->
        IF n \in names THEN [by |-> hook, sets |-> h[n].sets + 1] ELSE h[n]]

\* A request arrives: the chain starts at the hook registered first, with an
\* empty response.
Accept(w) ==
    /\ rpc[w] = "idle"
    /\ rpc' = [rpc EXCEPT ![w] = Chain("accept")]
    /\ stageRet' = [stageRet EXCEPT ![w] = Nil]
    /\ sgRet' = [sgRet EXCEPT ![w] = Nil]
    /\ mmRet' = [mmRet EXCEPT ![w] = Nil]
    /\ before' = [before EXCEPT ![w] = 0]
    /\ after' = [after EXCEPT ![w] = 0]
    /\ mmCalls' = [mmCalls EXCEPT ![w] = 0]
    /\ hdr' = [hdr EXCEPT ![w] = NoHeaders]
    /\ UNCHANGED <<monVars, outer, loopVars, mainVars, logVars, userVars, fnVars>>

\* MemoryMiddleware: before := monitor.GetMemoryStats() begins.
MM_BeforeCall(w) ==
    /\ rpc[w] = "mm_enter"
    /\ \E s \in AppSamples : ReadMemStats(w, s.Alloc, s.Sys)
    /\ rpc' = [rpc EXCEPT ![w] = "mm_before"]
    /\ mmCalls' = [mmCalls EXCEPT ![w] = @ + 1]
    /\ UNCHANGED <<srcLast, stageRet, sgRet, mmRet, before, after, outer, hdr,
                   loopVars, mainVars, logVars, userVars, fnVars>>

\* The first snapshot is returned; start := time.Now(); err := c.Next()
\* enters the next stage.
MM_BeforeReturn(w) ==
    /\ rpc[w] = "mm_before"
    /\ Return(w)
    /\ before' = [before EXCEPT ![w] = ms[w].Alloc]
    /\ rpc' = [rpc EXCEPT ![w] = Chain("memory_next")]
    /\ UNCHANGED <<maxReturned, stageRet, sgRet, mmRet, after, outer, mmCalls,
                   hdr, loopVars, mainVars, logVars, userVars, fnVars>>

\* SimpleGoroutineMiddleware: beforeGoroutines := runtime.NumGoroutine();
\* err := c.Next() enters the next stage.
SG_Next(w) ==
    /\ rpc[w] = "sg_before"
    /\ rpc' = [rpc EXCEPT ![w] = Chain("goroutine_next")]
    /\ UNCHANGED <<monVars, stageRet, sgRet, mmRet, before, after, outer,
                   mmCalls, hdr, loopVars, mainVars, logVars, userVars, fnVars>>

\* The route handler returns nil or an error.
StageReturns(w) ==
    /\ rpc[w] = "stage"
    /\ \E e \in StageResults : stageRet' = [stageRet EXCEPT ![w] = e]
    /\ rpc' = [rpc EXCEPT ![w] = Chain("stage_return")]
    /\ UNCHANGED <<monVars, sgRet, mmRet, before, after, outer, mmCalls, hdr,
                   loopVars, mainVars, logVars, userVars, fnVars>>

\* SimpleGoroutineMiddleware: afterGoroutines, the three headers, return err.
SG_Return(w) ==
    /\ rpc[w] = "sg_after"
    /\ hdr' = [hdr EXCEPT ![w] = HeaderSet(@, GoroutineHeaders, "goroutine")]
    /\ sgRet' = [sgRet EXCEPT ![w] =
                    PassThrough(IF outer = "memory" THEN stageRet[w]
                                ELSE mmRet[w])]
    /\ rpc' = [rpc EXCEPT ![w] = Chain("goroutine_return")]
    /\ UNCHANGED <<monVars, stageRet, mmRet, before, after, outer, mmCalls,
                   loopVars, mainVars, logVars, userVars, fnVars>>

\* Variant: the second snapshot is begun while the wrapped stage is running.
MM_AfterCallEarly(w) ==
    /\ rpc[w] \in {"stage", "mm_resume"}
    /\ \E s \in AppSamples : ReadMemStats(w, s.Alloc, s.Sys)
    /\ rpc' = [rpc EXCEPT ![w] = "mm_after"]
    /\ mmCalls' = [mmCalls EXCEPT ![w] = @ + 1]
    /\ UNCHANGED <<srcLast, stageRet, sgRet, mmRet, before, after, outer, hdr,
                   loopVars, mainVars, logVars, userVars, fnVars>>

\* MemoryMiddleware: duration := time.Since(start); after :=
\* monitor.GetMemoryStats() begins.
MM_AfterCall(w) ==
    /\ rpc[w] = "mm_resume"
    /\ \E s \in AppSamples : ReadMemStats(w, s.Alloc, s.Sys)
    /\ rpc' = [rpc EXCEPT ![w] = "mm_after"]
    /\ mmCalls' = [mmCalls EXCEPT ![w] = @ + 1]
    /\ UNCHANGED <<srcLast, stageRet, sgRet, mmRet, before, after, outer, hdr,
                   loopVars, mainVars, logVars, userVars, fnVars>>

\* The second snapshot is returned.
MM_AfterReturn(w) ==
    /\ rpc[w] = "mm_after"
    /\ Return(w)
    /\ after' = [after EXCEPT ![w] = ms[w].Alloc]
    /\ rpc' = [rpc EXCEPT ![w] = "mm_headers"]
    /\ UNCHANGED <<maxReturned, stageRet, sgRet, mmRet, before, outer, mmCalls,
                   hdr, loopVars, mainVars, logVars, userVars, fnVars>>

\* MemoryMiddleware: memoryDiff, the five headers, return err.
MM_Return(w) ==
    /\ rpc[w] = "mm_headers"
    /\ hdr' = [hdr EXCEPT ![w] = HeaderSet(@, MemoryHeaders, "memory")]
    /\ mmRet' = [mmRet EXCEPT ![w] =
                    PassThrough(IF outer = "memory" THEN sgRet[w]
                                ELSE stageRet[w])]
    /\ rpc' = [rpc EXCEPT ![w] = Chain("memory_return")]
    /\ UNCHANGED <<monVars, stageRet, sgRet, before, after, outer, mmCalls,
                   loopVars, mainVars, logVars, userVars, fnVars>>

\* The response is sent; the worker takes its next request.
RequestDone(w) ==
    /\ rpc[w] = "done"
    /\ rpc' = [rpc EXCEPT ![w] = "idle"]
    /\ UNCHANGED <<monVars, stageRet, sgRet, mmRet, before, after, outer,
                   mmCalls, hdr, loopVars, mainVars, logVars, userVars, fnVars>>

\* ------------------------------------------------------ MemoryLogRepository
\* Calls are made one at a time; each is one command on the collection.
EmptyID == ""
GivenIDs == {"a"}
GeneratedIDs == {"g1", "g2"}

\* A time.Time as the driver encodes it, in a document or in a filter: a BSON
\* datetime holds whole milliseconds.
Truncate(t) == t - (t % 2)

\* Variant: the timestamp is set to the current time on every Create.
AssignTimestampAlways(ts, now) == now

\* if memoryLog.Timestamp.IsZero() { memoryLog.Timestamp = time.Now() }
AssignTimestamp(ts, now) == IF ts = 0 THEN now ELSE ts

\* The documents matched by {timestamp: {$gte: start, $lte: end}}.
InRange(start, end) ==
    {d \in logs : d.ts >= Truncate(start) /\ d.ts <= Truncate(end)}

\* Variant: the filter of DeleteOlderThan is {timestamp: {$lte: olderThan}}.
OlderThanInclusive(olderThan) == {d \in logs : d.ts <= Truncate(olderThan)}

\* The documents matched by {timestamp: {$lt: olderThan}}.
OlderThan(olderThan) == {d \in logs : d.ts < Truncate(olderThan)}

\* The DeleteOlderThan cutoff a call made now follows immediately.
FollowsCutoff == IF last.op = "delete" /\ ~last.err THEN last.cutoff ELSE NoCutoff

\* Create(memoryLog): the ID is a fresh primitive.NewObjectID().Hex() if
\* empty and is kept otherwise, the timestamp is taken from the clock if zero,
\* and InsertOne stores the document unless the command fails or the _id is
\* taken. The entry is changed in place.
Create(id, ts) ==
    \E g \in IF id = EmptyID THEN GeneratedIDs \ {d.id : d \in logs} ELSE {id},
       now \in Times, ok \in BOOLEAN :
        LET outId == g
            outTs == AssignTimestamp(ts, now)
            inserted == ok /\ outId \notin {d.id : d \in logs}
        IN  /\ now >= clock
            /\ clock' = IF ts = 0 THEN now ELSE clock
            /\ ts = 0 \/ now = clock
            /\ logs' = IF inserted
                       THEN logs \cup {[id |-> outId, ts |-> Truncate(outTs)]}
                       ELSE logs
            /\ last' = [op |-> "create", inId |-> id, inTs |-> ts,
                        outId |-> outId, outTs |-> outTs, err |-> ~inserted]
            /\ prevCutoff' = FollowsCutoff
            /\ UNCHANGED <<monVars, loopVars, mainVars, reqVars, userVars, fnVars>>

\* FindByTimeRange(start, end): the matching documents, or an error.
FindByTimeRange(start, end) ==
    \E ok \in BOOLEAN :
        /\ last' = [op |-> "find", start |-> start, end |-> end,
                    result |-> IF ok THEN InRange(start, end) ELSE {},
                    err |-> ~ok]
        /\ prevCutoff' = FollowsCutoff
        /\ UNCHANGED <<logs, clock, monVars, loopVars, mainVars, reqVars,
                       userVars, fnVars>>

\* FindAll(): every document, or an error.
FindAll ==
    \E ok \in BOOLEAN :
        /\ last' = [op |-> "findall", result |-> IF ok THEN logs ELSE {},
                    err |-> ~ok]
        /\ prevCutoff' = FollowsCutoff
        /\ UNCHANGED <<logs, clock, monVars, loopVars, mainVars, reqVars,
                       userVars, fnVars>>

\* DeleteOlderThan(olderThan): DeleteMany of the matching documents; returns
\* result.DeletedCount, or 0 and an error.
DeleteOlderThan(olderThan) ==
    \E ok \in BOOLEAN :
        /\ logs' = IF ok THEN logs \ OlderThan(olderThan) ELSE logs
        /\ last' = [op |-> "delete", cutoff |-> olderThan, pre |-> logs,
                    count |-> IF ok THEN Cardinality(OlderThan(olderThan)) ELSE 0,
                    err |-> ~ok]
        /\ prevCutoff' = FollowsCutoff
        /\ UNCHANGED <<clock, monVars, loopVars, mainVars, reqVars, userVars, fnVars>>

\* --------------------------------------------------------------- userUsecase
\* Each repository call is one SQL statement on the users table; the calls of
\* one usecase method are separate statements, so clients interleave between
\* them.
NoUser == [id |-> 0, email |-> ""]

\* Variant: the users table has no unique index on email.
IndexAllowsAny(id, email) == TRUE

\* The unique index on users.email (gorm:"uniqueIndex"): a statement that
\* would leave a second row with this email fails.
IndexAllows(id, email) == \A u \in users : u.email = email => u.id = id

\* CreateHandler: c.BodyParser(&req) fails and the handler answers 400
\* without calling CreateUser.
CH_BadRequest(c) ==
    /\ upc[c] = "idle"
    /\ upc' = [upc EXCEPT ![c] = "ch_respond"]
    /\ uresp' = [uresp EXCEPT ![c] =
                    [found |-> FALSE, err |-> "ErrBodyParser", status |-> 0]]
    /\ UNCHANGED <<users, nextUid, uarg, monVars, loopVars, mainVars, reqVars,
                   logVars, fnVars>>

\* CreateUser: existingUser, _ := u.userRepo.GetByEmail(req.Email). A found
\* user ends the call with EmailAlreadyExistsError; a failed lookup counts as
\* not found.
CU_GetByEmail(c, email) ==
    /\ upc[c] = "idle"
    /\ \E failed \in BOOLEAN :
          IF ~failed /\ \E u \in users : u.email = email
          THEN /\ upc' = [upc EXCEPT ![c] = "ch_respond"]
               /\ uresp' = [uresp EXCEPT ![c] =
                               [found |-> TRUE,
                                err |-> "EmailAlreadyExistsError",
                                status |-> 0]]
               /\ UNCHANGED uarg
          ELSE /\ upc' = [upc EXCEPT ![c] = "cu_create"]
               /\ uarg' = [uarg EXCEPT ![c] = [id |-> 0, email |-> email]]
               /\ uresp' = [uresp EXCEPT ![c] =
                               [found |-> FALSE, err |-> Nil, status |-> 0]]
    /\ UNCHANGED <<users, nextUid, monVars, loopVars, mainVars, reqVars, logVars, fnVars>>

\* CreateUser: HashPassword, then u.userRepo.Create(user), an INSERT that
\* takes the next id; any error is returned.
CU_Create(c) ==
    /\ upc[c] = "cu_create"
    /\ nextUid \in UserIDs
    /\ \E ok \in BOOLEAN :
          IF ok /\ IndexAllows(nextUid, uarg[c].email)
          THEN /\ users' = users \cup {[id |-> nextUid, email |-> uarg[c].email]}
               /\ nextUid' = nextUid + 1
               /\ uresp' = [uresp EXCEPT ![c].err = Nil]
          ELSE /\ UNCHANGED <<users, nextUid>>
               /\ uresp' = [uresp EXCEPT ![c].err = "ErrInternal"]
    /\ upc' = [upc EXCEPT ![c] = "ch_respond"]
    /\ uarg' = [uarg EXCEPT ![c] = NoUser]
    /\ UNCHANGED <<monVars, loopVars, mainVars, reqVars, logVars, fnVars>>

\* Variant: every error of CreateUser is answered with 500.
CreateStatusAlways500(err) == IF err = Nil THEN 201 ELSE 500

\* CreateHandler: the status for what CreateUser returned, by the type switch
\* on err.
CreateStatus(err) ==
    CASE err = Nil -> 201
      [] err = "EmailAlreadyExistsError" -> 409
      [] OTHER -> 500

\* CreateHandler: c.Status(...).JSON(...) writes the response.
CH_Respond(c) ==
    /\ upc[c] = "ch_respond"
    /\ uresp' = [uresp EXCEPT ![c].status =
                    IF uresp[c].err = "ErrBodyParser" THEN 400
                    ELSE CreateStatus(uresp[c].err)]
    /\ upc' = [upc EXCEPT ![c] = "idle"]
    /\ UNCHANGED <<users, nextUid, uarg, monVars, loopVars, mainVars, reqVars,
                   logVars, fnVars>>

\* UpdateUser: user, err := u.userRepo.GetByID(id); not found is returned.
UU_GetByID(c, id, email) ==
    /\ upc[c] = "idle"
    /\ IF \E u \in users : u.id = id
       THEN /\ upc' = [upc EXCEPT ![c] = "uu_save"]
            /\ uarg' = [uarg EXCEPT ![c] = [id |-> id, email |-> email]]
       ELSE UNCHANGED <<upc, uarg>>
    /\ UNCHANGED <<users, nextUid, uresp, monVars, loopVars, mainVars, reqVars,
                   logVars, fnVars>>

\* UpdateUser: user.Email = req.Email, HashPassword, u.userRepo.Update(user):
\* db.Save writes every field of the row with this id, inserting the row if
\* it is gone; any error is returned.
UU_Save(c) ==
    /\ upc[c] = "uu_save"
    /\ \E ok \in BOOLEAN :
          IF ok /\ IndexAllows(uarg[c].id, uarg[c].email)
          THEN users' = {u \in users : u.id # uarg[c].id} \cup {uarg[c]}
          ELSE UNCHANGED users
    /\ upc' = [upc EXCEPT ![c] = "idle"]
    /\ uarg' = [uarg EXCEPT ![c] = NoUser]
    /\ UNCHANGED <<nextUid, uresp, monVars, loopVars, mainVars, reqVars,
                   logVars, fnVars>>

\* DeleteUser: u.userRepo.Delete(id).
DU_Delete(c, id) ==
    /\ upc[c] = "idle"
    /\ users' = {u \in users : u.id # id}
    /\ UNCHANGED <<nextUid, upc, uarg, uresp, monVars, loopVars, mainVars,
                   reqVars, logVars, fnVars>>

\* ------------------------------------------------------------- FormatBytes
\* const unit = 1024
unit == 1024

\* A uint64 written in base unit, lowest digit first and without a leading
\* zero: six whole digits and the four top bits.
ByteDigits == {0, 1, 15, 256, 512, 1023}

ByteCounts ==
    {v \in UNION {[1..n -> ByteDigits] : n \in 1..7} :
        /\ Len(v) > 1 => v[Len(v)] # 0
        /\ Len(v) = 7 => v[7] < 16}

\* "KMGTPE"
Prefixes == <<"K", "M", "G", "T", "P", "E">>

\* Variant: the loop body never runs.
ExpNoLoop(n) == 0

\* for n := bytes / unit; n >= unit; n /= unit { div *= unit; exp++ }, the
\* value of exp after the loop when it starts from n; n / unit drops the
\* lowest digit and n >= unit holds while more than one digit is left.
RECURSIVE Exp(_)
Exp(n) == IF Len(n) > 1 THEN 1 + Exp(Tail(n)) ELSE 0

\* The twentieths in the fraction of bytes / div, div being unit^i: the whole
\* twentieths of the i lowest digits of bytes, and whether nothing is left
\* beyond them.
RECURSIVE Twentieths(_, _)
Twentieths(bytes, i) ==
    IF i = 0 THEN [q |-> 0, exact |-> TRUE]
    ELSE LET r == Twentieths(bytes, i - 1)
             x == 20 * bytes[i] + r.q
         IN  [q |-> x \div unit, exact |-> r.exact /\ x % unit = 0]

\* The verb %.1f: the nearest tenth, the even one when two are equally near.
\* (The quotient is taken exactly; float64 carries 53 bits of it.)
Tenths(bytes, i) ==
    LET t == Twentieths(bytes, i)
    IN  IF t.exact /\ t.q % 2 = 1 /\ (t.q \div 2) % 2 = 0
        THEN t.q \div 2
        ELSE (t.q + 1) \div 2

\* FormatBytes(bytes): the text returned and the prefix it carries, or the
\* index panic of "KMGTPE"[exp].
FormatBytes(bytes) ==
    IF Len(bytes) = 1
    THEN [text |-> ToString(bytes[1]) \o " B", prefix |-> ""]
    ELSE LET exp == Exp(Tail(bytes))
             tenths == Tenths(bytes, exp + 1)
             whole == bytes[exp + 2] + tenths \div 10
         IN  IF exp + 1 \notin DOMAIN Prefixes
             THEN [text |-> "panic", prefix |-> "panic"]
             ELSE [text |-> ToString(whole) \o "." \o ToString(tenths % 10)
                              \o " " \o Prefixes[exp + 1] \o "B",
                   prefix |-> Prefixes[exp + 1]]

\* One call of FormatBytes.
FB_Call ==
    /\ fb.out.text = ""
    /\ fb' = [fb EXCEPT !.out = FormatBytes(fb.in)]
    /\ UNCHANGED <<md, hc, conn, monVars, loopVars, mainVars, reqVars, logVars,
                   userVars>>

\* ---------------------------------------------------------------- memoryDiff
\* 2^n
RECURSIVE TwoTo(_)
TwoTo(n) == IF n = 0 THEN 1 ELSE 2 * TwoTo(n - 1)

\* The values of a uint64, the integers being IntBits wide.
Uint64s == 0..(TwoTo(IntBits) - 1)

\* The value of an int64 that an integer wraps to.
Wrap(x) ==
    LET r == x % TwoTo(IntBits)
    IN  IF r >= TwoTo(IntBits - 1) THEN r - TwoTo(IntBits) ELSE r

\* memoryDiff := int64(after.Alloc) - int64(before.Alloc)
MemoryDiff(a, b) == Wrap(Wrap(a) - Wrap(b))

\* Variant: the verb %d.
SignedTextPlain(d) == ToString(d)

\* fmt.Sprintf("%+d", memoryDiff)
SignedText(d) == IF d >= 0 THEN "+" \o ToString(d) ELSE ToString(d)

\* The difference is computed and rendered for X-Memory-Diff.
MD_Call ==
    /\ md.text = ""
    /\ md' = [md EXCEPT !.diff = MemoryDiff(md.after, md.before),
                        !.text = SignedText(MemoryDiff(md.after, md.before))]
    /\ UNCHANGED <<fb, hc, conn, monVars, loopVars, mainVars, reqVars, logVars,
                   userVars>>

\* ------------------------------------------------- MemoryHealthCheckHandler
\* stats := monitor.GetMemoryStats() begins.
HC_Stats(w) ==
    /\ hc[w].pos \in {"idle", "done"}
    /\ \E a \in AllocValues, s \in SysValues : ReadMemStats(w, a, s)
    /\ hc' = [hc EXCEPT ![w] = [pos |-> "stats", alloc |-> 0, maxAlloc |-> 0]]
    /\ UNCHANGED <<srcLast, fb, md, conn, loopVars, mainVars, reqVars, logVars,
                   userVars>>

\* The snapshot is returned.
HC_StatsReturn(w) ==
    /\ hc[w].pos = "stats"
    /\ Return(w)
    /\ hc' = [hc EXCEPT ![w].pos = "max", ![w].alloc = ms[w].Alloc]
    /\ UNCHANGED <<maxReturned, fb, md, conn, loopVars, mainVars, reqVars, logVars,
                   userVars>>

\* "maxAlloc": FormatBytes(monitor.GetMaxAlloc()) begins.
HC_MaxCall(w) ==
    /\ hc[w].pos = "max"
    /\ GMA_Call(w)
    /\ hc' = [hc EXCEPT ![w].pos = "reading"]
    /\ UNCHANGED <<fb, md, conn, loopVars, mainVars, reqVars, logVars,
                   userVars>>

\* GetMaxAlloc returns and the response is written.
HC_Respond(w) ==
    /\ hc[w].pos = "reading"
    /\ GMA_RUnlock(w)
    /\ hc' = [hc EXCEPT ![w].pos = "done", ![w].maxAlloc = ret[w]]
    /\ UNCHANGED <<fb, md, conn, loopVars, mainVars, reqVars, logVars,
                   userVars>>

\* -------------------------------------------------- NewMongo and NewDatabase
\* Both functions run the same loop, for i := 0; i < 5; i++. conn.tries
\* counts the attempts begun, conn.ok holds the calls of the current attempt
\* that succeeded, conn.logged the log.Printf lines and conn.slept the
\* arguments of time.Sleep in seconds.
MaxAttempts == 5

Drivers == {"NewMongo", "NewDatabase"}

\* Variant: the wait grows by one second per attempt.
BackoffLinear(i) == i + 1

\* time.Duration(1<<i) * time.Second, in seconds.
Backoff(i) == TwoTo(i)

\* i < 5 holds; mongo.Connect, or gorm.Open, returns. NewDatabase breaks on
\* success, NewMongo goes on to Ping.
RT_Connect(ok) ==
    /\ conn.pos = "attempt"
    /\ conn.i < MaxAttempts
    /\ conn' = [conn EXCEPT
                  !.tries = @ + 1,
                  !.err = IF ok THEN Nil ELSE "connect",
                  !.ok = IF ~ok THEN {}
                         ELSE IF conn.fn = "NewMongo" THEN {"Connect"}
                         ELSE {"Open"},
                  !.pos = IF ~ok THEN "failed"
                          ELSE IF conn.fn = "NewMongo" THEN "ping"
                          ELSE "after"]
    /\ UNCHANGED <<fb, md, hc, monVars, loopVars, mainVars, reqVars, logVars,
                   userVars>>

\* client.Ping returns: break on success.
RT_Ping(ok) ==
    /\ conn.pos = "ping"
    /\ conn' = [conn EXCEPT
                  !.err = IF ok THEN Nil ELSE "ping",
                  !.ok = IF ok THEN @ \cup {"Ping"} ELSE @,
                  !.pos = IF ok THEN "after" ELSE "failed"]
    /\ UNCHANGED <<fb, md, hc, monVars, loopVars, mainVars, reqVars, logVars,
                   userVars>>

\* The attempt failed: log.Printf, time.Sleep if i < 4, then i++ and the
\* loop condition.
RT_Failed ==
    /\ conn.pos = "failed"
    /\ conn' = [conn EXCEPT
                  !.logged = Append(@, [attempt |-> conn.i + 1,
                                        err |-> conn.err]),
                  !.slept = IF conn.i < 4 THEN Append(@, Backoff(conn.i))
                            ELSE @,
                  !.i = @ + 1,
                  !.pos = IF conn.i + 1 < MaxAttempts THEN "attempt"
                          ELSE "after"]
    /\ UNCHANGED <<fb, md, hc, monVars, loopVars, mainVars, reqVars, logVars,
                   userVars>>

\* After the loop: if err != nil the error is returned, else the connection.
RT_Return ==
    /\ conn.pos = "after"
    /\ conn' = [conn EXCEPT
                  !.ret = IF conn.err # Nil THEN "error" ELSE "ok",
                  !.pos = "returned"]
    /\ UNCHANGED <<fb, md, hc, monVars, loopVars, mainVars, reqVars, logVars,
                   userVars>>

\* ------------------------------------------------------------ specifications
\* A step of the monitor leaves the loops and main where they are.
MonitorOnly == UNCHANGED <<loopVars, mainVars, restVars>>

\* The steps of a GetMemoryStats call between taking the sample and returning.
InGMS(p) ==
    \/ GMS_RLock(p) /\ MonitorOnly
    \/ GMS_Compare(p) /\ MonitorOnly
    \/ GMS_Write(p) /\ MonitorOnly
    \/ GMS_AlertCheck(p) /\ MonitorOnly
    \/ GMS_Invoke(p) /\ MonitorOnly
    \/ GMS_HandlerReturn(p) /\ MonitorOnly

\* The steps of a GetMaxAlloc call after its entry.
InGMA(p) ==
    \/ GMA_RLock(p) /\ MonitorOnly
    \/ GMA_Read(p) /\ MonitorOnly
    \/ GMA_RUnlock(p) /\ MonitorOnly

\* The steps of one goroutine between taking the sample and returning it.
Locked(p) ==
    \/ InGMS(p)
    \/ GMA_Call(p) /\ MonitorOnly
    \/ InGMA(p)
    \/ SAH_Call(p) /\ MonitorOnly
    \/ SAH_LockAnnounce(p) /\ MonitorOnly
    \/ SAH_LockAcquire(p) /\ MonitorOnly
    \/ SAH_Write(p) /\ MonitorOnly
    \/ SAH_Unlock(p) /\ MonitorOnly

\* Any number of goroutines, any interleaving, any stats source.
Next ==
    \E p \in Procs :
        \/ GMS_ReadMemStats(p) /\ MonitorOnly
        \/ Locked(p)
        \/ GMS_RUnlock(p) /\ MonitorOnly

Spec == Init /\ [][Next]_vars

\* The same goroutines against a strictly increasing stats source, the
\* returned values observed.
NextInc ==
    \E p \in Procs :
        \/ GMS_ReadMemStatsInc(p) /\ MonitorOnly
        \/ Locked(p)
        \/ GMS_RUnlockObserved(p) /\ MonitorOnly

SpecInc == Init /\ [][NextInc]_vars

\* Calls executed one after another: a call starts and runs only while every
\* other goroutine is outside the monitor.
OthersIdle(p) == \A q \in Procs \ {p} : pc[q] = "idle"

NextSeq ==
    \E p \in Procs :
        /\ OthersIdle(p)
        /\ (GMS_ReadMemStats(p) \/ Locked(p) \/ GMS_RUnlockObserved(p))
        /\ MonitorOnly

SpecSeq == Init /\ [][NextSeq]_vars

\* Both loops started on the shared context, the server serving, and the
\* context cancelled at any moment.
InitLoop ==
    /\ NewApp
    /\ InitGoroutines
    /\ InitLoops("select")
    /\ InitMain("listen")
    /\ InitRest

\* The steps of loop l outside its select, its GetMemoryStats call included.
LoopStep(l) ==
    \/ LoopCall(l)
    \/ InGMS(l)
    \/ (l = MonitorLoop /\ MonitorLoopReturn)
    \/ (l = LoggerLoop /\ (LoggerLoopReturn \/ CreateReturns))

NextLoops ==
    \/ \E l \in Loops :
          \/ TickFire(l)
          \/ LoopSelectDone(l)
          \/ LoopSelectTick(l)
          \/ LoopPark(l)
          \/ LoopCall(l)
          \/ InGMS(l)
    \/ MonitorLoopReturn
    \/ LoggerLoopReturn
    \/ CreateReturns
    \/ Cancel

SpecLoops == InitLoop /\ [][NextLoops]_vars

\* The Go scheduler runs every runnable goroutine, and a select with several
\* ready cases takes each of them with equal probability: a loop goroutine
\* that can step does, and the Done case is not passed over forever.
SpecLoopsFair ==
    /\ SpecLoops
    /\ \A l \in Loops :
          /\ WF_vars(LoopStep(l))
          /\ WF_vars(LoopSelectTick(l) \/ LoopPark(l))
          /\ SF_vars(LoopSelectDone(l))

\* The loops next to a request worker that calls the monitor.
\* A request worker's GetMemoryStats call begins.
WorkerCall(w) ==
    /\ \E s \in AppSamples : ReadMemStats(w, s.Alloc, s.Sys)
    /\ UNCHANGED srcLast
    /\ MonitorOnly

NextApp ==
    \/ NextLoops
    \/ \E w \in Workers :
          \/ WorkerCall(w)
          \/ InGMS(w)
          \/ GMS_RUnlock(w) /\ MonitorOnly
          \/ GMA_Call(w) /\ MonitorOnly
          \/ InGMA(w)

SpecApp == InitLoop /\ [][NextApp]_vars

\* Goroutines calling GetMemoryStats, GetMaxAlloc and SetAlertHandler of the
\* application's monitor, the alert handler free to read GetMaxAlloc.
StartCall(p) ==
    \/ WorkerCall(p)
    \/ GMA_Call(p) /\ MonitorOnly
    \/ SAH_Call(p) /\ MonitorOnly

\* The steps of goroutine p inside a call.
InCall(p) ==
    \/ InGMS(p)
    \/ H_GetMaxAlloc(p) /\ MonitorOnly
    \/ H_RLock(p) /\ MonitorOnly
    \/ H_Return(p) /\ MonitorOnly
    \/ GMS_RUnlock(p) /\ MonitorOnly
    \/ InGMA(p)
    \/ SAH_LockAnnounce(p) /\ MonitorOnly
    \/ SAH_LockAcquire(p) /\ MonitorOnly
    \/ SAH_Write(p) /\ MonitorOnly
    \/ SAH_Unlock(p) /\ MonitorOnly

NextReentrant == \E p \in Procs : StartCall(p) \/ InCall(p)

SpecReentrant == InitLoop /\ [][NextReentrant]_vars

\* The Go scheduler runs every runnable goroutine, and sync.RWMutex hands the
\* lock over: Unlock wakes the readers that blocked behind the writer before
\* the next writer gets in, and a waiting writer keeps new readers out. So a
\* goroutine inside a call whose step is possible again and again takes it.
SpecReentrantFair ==
    /\ SpecReentrant
    /\ \A p \in Procs : SF_vars(InCall(p))

\* main from the return of initializeApp on, with both loops and the signals
\* of the operating system.
InitProcess ==
    /\ NewApp
    /\ InitGoroutines
    /\ InitLoops("unstarted")
    /\ InitMain("start_mon")
    /\ InitRest

NextProcess ==
    \/ GoStartMonitoring
    \/ GoStartMemoryLogging
    \/ ListenFails
    \/ ListenReturnsNil
    \/ SignalNotify
    \/ Signal
    \/ ReceiveSignal
    \/ SleepDone
    \/ Cleanup
    \/ \E l \in Loops :
          \/ TickFire(l)
          \/ LoopSelectDone(l)
          \/ LoopSelectTick(l)
          \/ LoopPark(l)
          \/ LoopCall(l)
          \/ Alive /\ InGMS(l)
    \/ MonitorLoopReturn
    \/ LoggerLoopReturn
    \/ CreateReturns

SpecProcess == InitProcess /\ [][NextProcess]_vars

\* The loops and the request worker with an alert handler that may panic.
NextCrash ==
    \/ NextApp
    \/ \E g \in Loops \cup Workers : GMS_HandlerPanic(g) /\ MonitorOnly

SpecCrash == InitLoop /\ [][NextCrash]_vars

\* Requests served through the middleware chain next to the StartMonitoring
\* loop, which calls the same monitor.
NextRequests ==
    \/ \E w \in Workers :
          \/ Accept(w)
          \/ MM_BeforeCall(w)
          \/ MM_BeforeReturn(w)
          \/ SG_Next(w)
          \/ StageReturns(w)
          \/ SG_Return(w)
          \/ MM_AfterCall(w)
          \/ MM_AfterReturn(w)
          \/ MM_Return(w)
          \/ RequestDone(w)
          \/ InGMS(w)
    \/ TickFire(MonitorLoop)
    \/ LoopSelectTick(MonitorLoop)
    \/ LoopPark(MonitorLoop)
    \/ LoopCall(MonitorLoop)
    \/ InGMS(MonitorLoop)
    \/ MonitorLoopReturn

SpecRequests == InitLoop /\ [][NextRequests]_vars

\* Any sequence of repository calls with any arguments.
NextLogs ==
    \/ \E id \in GivenIDs \cup {EmptyID}, ts \in Times \cup {0} : Create(id, ts)
    \/ \E start \in Times, end \in Times : FindByTimeRange(start, end)
    \/ FindAll
    \/ \E olderThan \in Times : DeleteOlderThan(olderThan)

SpecLogs == InitLoop /\ [][NextLogs]_vars

\* Clients calling CreateUser, UpdateUser and DeleteUser in any interleaving.
NextUsers ==
    \E c \in Clients :
        \/ CH_BadRequest(c)
        \/ \E email \in Emails : CU_GetByEmail(c, email)
        \/ CU_Create(c)
        \/ \E id \in UserIDs, email \in Emails : UU_GetByID(c, id, email)
        \/ UU_Save(c)
        \/ \E id \in UserIDs : DU_Delete(c, id)
        \/ CH_Respond(c)

SpecUsers == InitLoop /\ [][NextUsers]_vars

\* The same requests with the two hooks registered in either order.
InitEitherOrder ==
    /\ NewApp
    /\ InitGoroutines
    /\ InitLoops("select")
    /\ InitMain("listen")
    /\ InitChain({"memory", "goroutine"})
    /\ InitLogs /\ InitUsers /\ InitFn

SpecChain == InitEitherOrder /\ [][NextRequests]_vars

\* Health checks served while other goroutines call GetMemoryStats with any
\* samples.
NextHealth ==
    \/ \E w \in Workers :
          \/ HC_Stats(w)
          \/ InGMS(w)
          \/ HC_StatsReturn(w)
          \/ HC_MaxCall(w)
          \/ GMA_RLock(w) /\ MonitorOnly
          \/ GMA_Read(w) /\ MonitorOnly
          \/ HC_Respond(w)
    \/ \E p \in Procs \ Workers :
          \/ GMS_ReadMemStats(p) /\ MonitorOnly
          \/ InGMS(p)
          \/ GMS_RUnlock(p) /\ MonitorOnly

SpecHealth == InitLoop /\ [][NextHealth]_vars

\* FormatBytes called once with any uint64.
InitFormat ==
    /\ NewApp
    /\ InitGoroutines
    /\ InitLoops("select")
    /\ InitMain("listen")
    /\ InitRequests /\ InitLogs /\ InitUsers
    /\ fb \in {[in |-> v, out |-> [text |-> "", prefix |-> ""]] :
                 v \in ByteCounts}
    /\ md = [before |-> 0, after |-> 0, diff |-> 0, text |-> ""]
    /\ InitCalls
    /\ conn = NoCall

NextFormat == FB_Call

SpecFormat == InitFormat /\ [][NextFormat]_vars

\* memoryDiff computed once from any two uint64 values.
InitDiff ==
    /\ NewApp
    /\ InitGoroutines
    /\ InitLoops("select")
    /\ InitMain("listen")
    /\ InitRequests /\ InitLogs /\ InitUsers
    /\ fb = [in |-> <<0>>, out |-> [text |-> "", prefix |-> ""]]
    /\ InitCalls
    /\ conn = NoCall
    /\ md \in {[before |-> b, after |-> a, diff |-> 0, text |-> ""] :
                 a \in Uint64s, b \in Uint64s}

NextDiff == MD_Call

SpecDiff == InitDiff /\ [][NextDiff]_vars

\* newApp has built the monitor and calls NewDatabase or NewMongo; nothing
\* else of the application runs yet.
InitRetry ==
    /\ NewApp
    /\ InitGoroutines
    /\ InitLoops("unstarted")
    /\ mpc = "newApp"
    /\ notified = FALSE
    /\ sigChan = FALSE
    /\ sigServing = FALSE
    /\ mongoOpen = FALSE
    /\ InitRequests /\ InitLogs /\ InitUsers
    /\ fb = [in |-> <<0>>, out |-> [text |-> "", prefix |-> ""]]
    /\ md = [before |-> 0, after |-> 0, diff |-> 0, text |-> ""]
    /\ hc = [w \in Workers |-> [pos |-> "idle", alloc |-> 0, maxAlloc |-> 0]]
    /\ conn \in {[NoCall EXCEPT !.fn = fn, !.pos = "attempt"] : fn \in Drivers}

NextRetry ==
    \/ \E ok \in BOOLEAN : RT_Connect(ok)
    \/ \E ok \in BOOLEAN : RT_Ping(ok)
    \/ RT_Failed
    \/ RT_Return

SpecRetry == InitRetry /\ [][NextRetry]_vars

\* ------------------------------------------------------------------ claims
InHandler(p) == pc[p] = "gms_handler"

\* Inside the read-compare-write of m.maxAlloc.
InUpdate(p) == pc[p] \in {"gms_cmp", "gms_write"}

\* No GetMemoryStats call is in progress.
NoCallInProgress == \A p \in Procs : pc[p] \notin
    {"gms_rlock", "gms_cmp", "gms_write", "gms_alert", "gms_call",
     "gms_handler", "gms_runlock", "gms_panic"}

\* C1: with a strictly increasing stats source, once all GetMemoryStats calls
\* have returned, maxAlloc (what GetMaxAlloc returns) is the largest Alloc
\* the source produced, which is the last one.
C1_NoLostUpdate == NoCallInProgress => maxAlloc = srcLast

\* C2: maxAlloc is at least every Alloc value a completed GetMemoryStats call
\* has returned.
C2_MaxCoversReturned == maxAlloc >= maxReturned

\* C3: after calls executed one after another, GetMaxAlloc returns exactly
\* the maximum Alloc among the samples (0 when there was none).
C3_SequentialMax ==
    /\ NoCallInProgress => maxAlloc = maxReturned
    /\ \A p \in Procs : pc[p] = "gma_runlock" => ret[p] = maxReturned

\* C3 witness: GetMaxAlloc has read a positive maximum after a call that
\* sampled it.
C3_Witness ==
    \E p \in Procs : pc[p] = "gma_runlock" /\ ret[p] = MaxAlloc /\ maxReturned = MaxAlloc

\* C4: no step of any execution decreases maxAlloc.
C4_MaxMonotonic == [][maxAlloc' >= maxAlloc]_vars

\* C5: no two goroutines are inside the read-compare-write of maxAlloc at
\* once, none is inside it while another reads maxAlloc in GetMaxAlloc, and
\* alertHandler is written only with every reader excluded.
C5_ExclusiveWrites ==
    \A p \in Procs :
        /\ InUpdate(p) =>
              \A q \in Procs \ {p} : ~InUpdate(q) /\ pc[q] # "gma_read"
        /\ pc[p] = "sah_write" => mu.writer = p /\ mu.readers = {}

\* C6: with a positive threshold and a handler registered, a GetMemoryStats
\* call has invoked the handler exactly once by the time it returns when its
\* own sample has Alloc > t * Sys, and not at all otherwise.
C6_AlertExactlyOnCrossing ==
    \A p \in Procs :
        (pc[p] = "gms_runlock" /\ alertThreshold[1] > 0 /\ alertHandler # Nil)
        => invoked[p] =
              IF ms[p].Alloc * alertThreshold[2] > alertThreshold[1] * ms[p].Sys
              THEN 1 ELSE 0

\* C6 witness: a call about to return after one invocation for a crossing
\* sample.
C6_Witness ==
    \E p \in Procs :
        /\ pc[p] = "gms_runlock" /\ invoked[p] = 1
        /\ alertThreshold[1] > 0 /\ alertHandler # Nil
        /\ ms[p].Alloc * alertThreshold[2] > alertThreshold[1] * ms[p].Sys

\* C7: with alertThreshold <= 0 no GetMemoryStats call invokes the handler,
\* whatever the sample and the registered handler.
C7_NoAlertWhenDisabled ==
    alertThreshold[1] <= 0 =>
        \A p \in Procs :
            pc[p] \notin {"gms_call", "gms_handler", "gms_panic"} /\ invoked[p] = 0

\* C7 witness: threshold 0, a handler registered, and a call about to return
\* whose sample has Alloc above Sys.
C7_Witness ==
    \E p \in Procs :
        /\ alertThreshold[1] = 0 /\ alertHandler # Nil
        /\ pc[p] = "gms_runlock" /\ ms[p].Alloc > ms[p].Sys

\* C8: at most one alert handler invocation is in progress at any time.
C8_HandlerSerialized == Cardinality({p \in Procs : InHandler(p)}) <= 1

\* C9 as claimed: whenever an alert handler invocation is in progress, the
\* RLock of a GetMaxAlloc call is granted without waiting for the handler,
\* also when a SetAlertHandler call is waiting for the lock.
C9_NeverBlocksOnHandler == (\E q \in Procs : InHandler(q)) => CanRLock

\* C9 amended: whenever an alert handler invocation is in progress and no
\* SetAlertHandler call is waiting for the lock, the RLock of a GetMaxAlloc
\* call is granted without waiting for the handler.
C9_NoBlockUnlessWriterWaits ==
    ((\E q \in Procs : InHandler(q)) /\ (\A r \in Procs : pc[r] # "sah_wait"))
    => /\ CanRLock
       /\ \A p \in Procs : pc[p] = "gma_rlock" => ENABLED GMA_RLock(p)

\* C9 witness: a GetMaxAlloc call holds its read lock while a handler
\* invocation is in progress.
C9_Witness ==
    \E p, q \in Procs : InHandler(q) /\ pc[p] \in {"gma_read", "gma_runlock"}

C11_OneCallPerTick ==
    /\ [](calls[MonitorLoop] =
            received[MonitorLoop] - (IF lpc[MonitorLoop] = "tick" THEN 1 ELSE 0))
    /\ [](lpc[MonitorLoop] = "returned" => ctxDone)
    /\ (ctxDone ~> lpc[MonitorLoop] = "returned")

\* C11 witness: StartMonitoring has returned after a cancellation, having
\* received MaxTicks ticks and made as many calls.
C11_Witness ==
    /\ lpc[MonitorLoop] = "returned" /\ ctxDone
    /\ received[MonitorLoop] = MaxTicks /\ calls[MonitorLoop] = MaxTicks

\* C12 as claimed: a loop cancelled while blocked in its select between ticks
\* does not return immediately: when it has returned, its ticker has fired
\* after the cancellation, and it has handled at most one further tick.
C12_ReturnsAtNextTick ==
    \A l \in Loops :
        (cancelAt[l] # NotWaiting /\ lpc[l] = "returned")
        => fired[l] /\ received[l] <= cancelAt[l] + 1

\* C12 amended: a loop cancelled while blocked in its select between ticks
\* returns at once: its next step is the return, whether or not its ticker
\* fires first, it handles no further tick, and it eventually returns.
C12_ReturnsAtOnce ==
    /\ [](\A l \in Loops :
            cancelAt[l] # NotWaiting =>
                /\ lpc[l] \in {"woken_done", "returned"}
                /\ received[l] = cancelAt[l])
    /\ \A l \in Loops : (cancelAt[l] # NotWaiting) ~> (lpc[l] = "returned")

\* C12 witness: the logging loop, cancelled while blocked after handling a
\* tick, has returned with no tick fired or received since.
C12_Witness ==
    /\ cancelAt[LoggerLoop] = 1 /\ lpc[LoggerLoop] = "returned"
    /\ received[LoggerLoop] = 1 /\ ~fired[LoggerLoop]

\* C13: the step in which memoryLogRepo.Create returns an error takes the
\* logging loop back to its select and changes nothing of the monitor
\* (maxAlloc, alertHandler, the lock), of the StartMonitoring loop or of any
\* GetMemoryStats caller; whatever the outcomes of earlier Creates, every
\* snapshot of the loop is followed by one Create attempt, no loop has
\* returned unless the context is cancelled, and no GetMemoryStats call fails.
C13_CreateFailureOnlyLogged ==
    /\ [][(lpc[LoggerLoop] = "create" /\ lpc'[LoggerLoop] # "create"
              /\ lastCreate' = "err")
          => /\ lpc'[LoggerLoop] = "select"
             /\ lpc'[MonitorLoop] = lpc[MonitorLoop]
             /\ maxAlloc' = maxAlloc /\ alertHandler' = alertHandler
             /\ mu' = mu /\ pc' = pc]_vars
    /\ [](attempts =
            calls[LoggerLoop] - (IF lpc[LoggerLoop] = "gms" THEN 1 ELSE 0))
    /\ [](\A l \in Loops : lpc[l] = "returned" => ctxDone)
    /\ [](\A g \in Goroutines : pc[g] # "gms_panic")

\* C13 witness: after a failed Create the logging loop has taken its next
\* snapshot and its second Create is in flight, the context not cancelled and
\* the StartMonitoring loop inside a GetMemoryStats call.
C13_Witness ==
    /\ lastCreate = "err" /\ lpc[LoggerLoop] = "create" /\ attempts = 2
    /\ ~ctxDone /\ lpc[MonitorLoop] = "gms"

\* C14: once a signal has arrived while the server was serving, the process
\* does not end before the shared context is cancelled, both loops have
\* returned and the MongoDB connection is closed; the connection is closed
\* only after both loops have returned; and a loop has returned only if the
\* context is cancelled.
C14_GracefulShutdown ==
    /\ (sigServing /\ ~Alive) =>
          /\ ctxDone
          /\ \A l \in Loops : lpc[l] = "returned"
          /\ ~mongoOpen
    /\ ~mongoOpen => \A l \in Loops : lpc[l] = "returned"
    /\ \A l \in Loops : lpc[l] = "returned" => ctxDone

\* C15: a panic of the alert handler does not leave GetMemoryStats: no
\* request worker and no loop goroutine is ever unwinding with it.
C15_HandlerPanicContained == \A g \in Goroutines : pc[g] # "panicking"

\* C16: while a Create of the logging loop is waiting for MongoDB the loop
\* is outside the monitor and holds its lock neither as reader nor as
\* writer, and every other goroutine waiting for the read lock of a
\* GetMemoryStats or GetMaxAlloc call can take it.
C16_CreateHoldsNoLock ==
    lpc[LoggerLoop] = "create" =>
        /\ pc[LoggerLoop] = "idle"
        /\ LoggerLoop \notin mu.readers /\ mu.writer # LoggerLoop
        /\ \A g \in Goroutines \ {LoggerLoop} :
              /\ pc[g] = "gms_rlock" => ENABLED GMS_RLock(g)
              /\ pc[g] = "gma_rlock" => ENABLED GMA_RLock(g)

\* C16 witness: with a Create in flight the StartMonitoring loop is inside
\* the update of maxAlloc and the request worker has read maxAlloc in
\* GetMaxAlloc, both holding the read lock.
C16_Witness ==
    /\ lpc[LoggerLoop] = "create"
    /\ pc[MonitorLoop] = "gms_write"
    /\ \E w \in Workers : pc[w] = "gma_runlock" /\ w \in mu.readers

\* C17: SimpleGoroutineMiddleware has returned exactly what the route handler
\* returned, and MemoryMiddleware exactly what its c.Next(), which is
\* SimpleGoroutineMiddleware, returned: an error when the handler failed, nil
\* when it did not, and never a value of their own.
C17_PassThrough ==
    \A w \in Workers :
        /\ rpc[w] \in {"mm_resume", "mm_after", "mm_headers", "done"}
              => sgRet[w] = stageRet[w]
        /\ rpc[w] = "done" => mmRet[w] = sgRet[w] /\ mmRet[w] = stageRet[w]

\* C17 witness: a request whose handler failed has left MemoryMiddleware with
\* that error, the two snapshots differing.
C17_Witness ==
    \E w \in Workers :
        /\ rpc[w] = "done" /\ stageRet[w] = "ErrInternal" /\ mmRet[w] = "ErrInternal"
        /\ before[w] # after[w]

\* C18 as claimed: FindByTimeRange(-infinity, cutoff) right after a
\* DeleteOlderThan(cutoff) returns no entries; a DeleteOlderThan returns the
\* number of entries with timestamp < cutoff, and 0 when it follows a
\* DeleteOlderThan with the same cutoff.
C18_PurgeThenQueryEmpty ==
    /\ (last.op = "find" /\ ~last.err /\ prevCutoff # NoCutoff
            /\ last.start = MinTime /\ last.end = prevCutoff)
       => last.result = {}
    /\ (last.op = "delete" /\ ~last.err)
       => /\ last.count = Cardinality({d \in last.pre : d.ts < last.cutoff})
          /\ prevCutoff = last.cutoff => last.count = 0

\* C18 amended: FindByTimeRange(-infinity, cutoff) right after a
\* DeleteOlderThan(cutoff) returns no entry of a millisecond before that of
\* cutoff: what it returns are the entries in the millisecond of cutoff, which
\* the delete leaves; a DeleteOlderThan returns the number of entries of a
\* millisecond before that of cutoff, and 0 when it follows a DeleteOlderThan
\* with the same cutoff.
C18_PurgeThenQueryBoundary ==
    /\ (last.op = "find" /\ ~last.err /\ prevCutoff # NoCutoff
            /\ last.start = MinTime /\ last.end = prevCutoff)
       => /\ \A d \in last.result : d.ts = Truncate(prevCutoff)
          /\ last.result = {d \in logs : d.ts = Truncate(prevCutoff)}
    /\ (last.op = "delete" /\ ~last.err)
       => /\ last.count =
                Cardinality({d \in last.pre : d.ts < Truncate(last.cutoff)})
          /\ prevCutoff = last.cutoff => last.count = 0

\* C18 witness: a query right after a delete with the same cutoff returns
\* entries, all of the millisecond of the cutoff.
C18_Witness ==
    /\ last.op = "find" /\ ~last.err /\ prevCutoff # NoCutoff
    /\ last.start = MinTime /\ last.end = prevCutoff
    /\ Cardinality(last.result) > 1

\* C19: Create leaves the entry with a generated ID exactly when it arrived
\* with the empty one and with the current time exactly when it arrived with
\* the zero timestamp, and with the ID and timestamp it arrived with
\* otherwise; a successful Create stores the entry under that ID at that
\* timestamp's millisecond; and no step changes the timestamp of a stored
\* document.
C19_AssignedOnlyWhenAbsent ==
    /\ [](last.op = "create" =>
            /\ last.inId # EmptyID => last.outId = last.inId
            /\ last.inId = EmptyID => last.outId \in GeneratedIDs
            /\ last.outTs = IF last.inTs = 0 THEN clock ELSE last.inTs
            /\ ~last.err =>
                  [id |-> last.outId, ts |-> Truncate(last.outTs)] \in logs)
    /\ [][\A d \in logs : \A e \in logs' : e.id = d.id => e.ts = d.ts]_vars

\* C19 witness: an entry that arrived with its own ID and a timestamp earlier
\* than the clock was stored with both, next to an entry that got a generated
\* ID.
C19_Witness ==
    /\ last.op = "create" /\ ~last.err
    /\ last.inId = "a" /\ last.outId = "a"
    /\ last.inTs = MinTime /\ last.outTs = MinTime /\ clock = MaxTime
    /\ \E d \in logs : d.id \in GeneratedIDs /\ d.ts = Truncate(MaxTime)

C21_ExistingEmailConflict ==
    [][\A c \in Clients :
         /\ (/\ upc[c] = "idle" /\ upc'[c] \in {"cu_create", "ch_respond"}
             /\ uresp'[c].found)
               => /\ uresp'[c].err = "EmailAlreadyExistsError"
                  /\ upc'[c] = "ch_respond"
                  /\ users' = users /\ nextUid' = nextUid
         /\ (upc[c] = "ch_respond" /\ upc'[c] = "idle") =>
               /\ uresp[c].found => uresp'[c].status = 409
               /\ uresp[c].err = "EmailAlreadyExistsError"
                     => uresp'[c].status = 409
               /\ uresp[c].err \notin {Nil, "EmailAlreadyExistsError",
                                        "ErrBodyParser"}
                     => uresp'[c].status = 500
               /\ users' = users]_vars

\* C21 witness: one client has been answered 409 for an email that is stored,
\* the other 500 after its insert of the same email failed, and one user is
\* stored.
C21_Witness ==
    /\ Cardinality(users) = 1
    /\ \E c, d \in Clients :
          /\ upc[c] = "idle" /\ uresp[c].found /\ uresp[c].status = 409
          /\ upc[d] = "idle" /\ uresp[d].err = "ErrInternal"
          /\ uresp[d].status = 500

\* C22: FormatBytes renders a value below 1024 as the integer followed by
\* " B" and a value v >= 1024 with the prefix of index k, 1024^(k+1) <= v <
\* 1024^(k+2); the index stays within the six prefixes for every uint64; and
\* 0, 1023, 1024, 1536, 1048576 give "0 B", "1023 B", "1.0 KB", "1.5 KB",
\* "1.0 MB".
C22_FormatBytes ==
    fb.out.text # "" =>
        /\ fb.out.text # "panic"
        /\ Len(fb.in) = 1 => fb.out.text = ToString(fb.in[1]) \o " B"
        /\ \A k \in 0..5 : Len(fb.in) = k + 2 => fb.out.prefix = Prefixes[k + 1]
        /\ fb.in = <<0>> => fb.out.text = "0 B"
        /\ fb.in = <<1023>> => fb.out.text = "1023 B"
        /\ fb.in = <<0, 1>> => fb.out.text = "1.0 KB"
        /\ fb.in = <<512, 1>> => fb.out.text = "1.5 KB"
        /\ fb.in = <<0, 0, 1>> => fb.out.text = "1.0 MB"

\* C22 witness: the largest uint64 has been formatted, with the last prefix.
C22_Witness ==
    /\ fb.in = <<1023, 1023, 1023, 1023, 1023, 1023, 15>>
    /\ fb.out.text = "16.0 EB" /\ fb.out.prefix = "E"

\* C23: the logging loop has begun one GetMemoryStats call for each tick it
\* received and one Create for each call that returned; and while a Create is
\* in flight its entry has the empty ID, the zero Timestamp, and Alloc,
\* TotalAlloc, Sys, NumGC, GCCPUFraction and NumGoroutine of the snapshot
\* taken for that tick.
C23_EntryIsSnapshot ==
    /\ calls[LoggerLoop] =
          received[LoggerLoop] - (IF lpc[LoggerLoop] = "tick" THEN 1 ELSE 0)
    /\ attempts = calls[LoggerLoop] - (IF lpc[LoggerLoop] = "gms" THEN 1 ELSE 0)
    /\ lpc[LoggerLoop] = "create" =>
          /\ memoryLog.ID = EmptyID /\ memoryLog.Timestamp = 0
          /\ memoryLog.Alloc = stats.Alloc
          /\ memoryLog.TotalAlloc = stats.TotalAlloc
          /\ memoryLog.Sys = stats.Sys
          /\ memoryLog.NumGC = stats.NumGC
          /\ memoryLog.GCCPUFraction = stats.GCCPUFraction
          /\ memoryLog.NumGoroutine = stats.NumGoroutine

\* C23 witness: the Create of the logging loop's second tick is in flight with
\* an entry whose Alloc is above the alert threshold.
C23_Witness ==
    /\ lpc[LoggerLoop] = "create" /\ received[LoggerLoop] = 2 /\ attempts = 2
    /\ memoryLog.Alloc = 1 /\ memoryLog.TotalAlloc = 2

\* The positions of a request inside the stage MemoryMiddleware wraps.
InWrapped(w) ==
    rpc[w] \in (IF outer = "memory" THEN {"sg_before", "stage", "sg_after"}
                ELSE {"stage"})

\* C24: while the stage MemoryMiddleware wraps is running the middleware has
\* begun one GetMemoryStats call and that call has returned; its second call
\* begins only in a step taken after the wrapped stage returned, with an
\* error or without; a finished request has had exactly two calls; and its
\* headers are on the response only when the second call has returned.
C24_SnapshotsAroundStage ==
    /\ [](\A w \in Workers :
            /\ InWrapped(w) => mmCalls[w] = 1 /\ pc[w] = "idle"
            /\ rpc[w] = "done" => mmCalls[w] = 2
            /\ mmCalls[w] <= 2
            /\ hdr[w]["X-Memory-After"].sets > 0
                  => mmCalls[w] = 2 /\ pc[w] = "idle"
                       /\ rpc[w] \notin {"mm_after", "mm_headers"})
    /\ [][\A w \in Workers :
            mmCalls'[w] = 2 /\ mmCalls[w] = 1 => rpc[w] = "mm_resume"]_vars

\* C24 witness: a request whose handler failed is finished with two calls made
\* and the headers of MemoryMiddleware set, while the StartMonitoring loop is
\* inside a call of its own.
C24_Witness ==
    \E w \in Workers :
        /\ rpc[w] = "done" /\ stageRet[w] = "ErrNotFound" /\ mmCalls[w] = 2
        /\ hdr[w]["X-Memory-Diff"].by = "memory"
        /\ pc[MonitorLoop] = "gms_cmp"

\* C26: in either registration order a finished request carries each of the
\* eight headers set exactly once, by its own hook, and a header once set is
\* not changed again while the request is served.
C26_OrderIndependent ==
    /\ [](\A w \in Workers : rpc[w] = "done" =>
            /\ \A n \in MemoryHeaders :
                  hdr[w][n] = [by |-> "memory", sets |-> 1]
            /\ \A n \in GoroutineHeaders :
                  hdr[w][n] = [by |-> "goroutine", sets |-> 1]
            /\ Cardinality(MemoryHeaders \cup GoroutineHeaders) = 8)
    /\ [][\A w \in Workers : \A n \in HeaderNames :
            (hdr[w][n].sets > 0 /\ rpc[w] # "idle")
               => hdr'[w][n] = hdr[w][n]]_vars

\* C26 witness: with SimpleGoroutineMiddleware registered first, a request is
\* finished whose headers of MemoryMiddleware were set before those of
\* SimpleGoroutineMiddleware.
C26_Witness ==
    \E w \in Workers :
        /\ outer = "goroutine" /\ rpc[w] = "done"
        /\ hdr[w]["X-Num-Goroutines"].by = "memory"
        /\ hdr[w]["X-Goroutines-After"].by = "goroutine"

\* C25 as claimed: for all uint64 values of before.Alloc and after.Alloc the
\* X-Memory-Diff value is after.Alloc minus before.Alloc, rendered with an
\* explicit sign.
C25_DiffIsDifference ==
    md.text # "" =>
        /\ md.diff = md.after - md.before
        /\ md.text = (IF md.diff >= 0 THEN "+" ELSE "-")
                        \o ToString(IF md.diff >= 0 THEN md.diff ELSE 0 - md.diff)

\* C25 amended: the X-Memory-Diff value is after.Alloc minus before.Alloc
\* whenever that difference is a value of int64, in particular whenever both
\* are below 2^63; otherwise it is that difference wrapped by 2^64; and it is
\* always rendered with an explicit sign.
C25_DiffWithinInt64 ==
    md.text # "" =>
        LET d == md.after - md.before
            half == TwoTo(IntBits - 1)
        IN  /\ (0 - half <= d /\ d < half) => md.diff = d
            /\ (md.after < half /\ md.before < half) => md.diff = d
            /\ d >= half => md.diff = d - 2 * half
            /\ d < 0 - half => md.diff = d + 2 * half
            /\ md.text = (IF md.diff >= 0 THEN "+" ELSE "-")
                   \o ToString(IF md.diff >= 0 THEN md.diff ELSE 0 - md.diff)

\* C25 witness: memory shrank by one from a value below 2^63 and the header
\* reads -1.
C25_Witness ==
    /\ md.before = TwoTo(IntBits - 1) - 1 /\ md.after = md.before - 1
    /\ md.diff = 0 - 1 /\ md.text = "-1"

\* C27: in every /health/memory response the maxAlloc read by GetMaxAlloc is
\* at least the Alloc of the snapshot the handler took before it, whatever
\* other GetMemoryStats callers do in between.
C27_MaxCoversAlloc ==
    \A w \in Workers : hc[w].pos = "done" => hc[w].maxAlloc >= hc[w].alloc

\* Goroutine p is inside a GetMemoryStats call.
InGetMemoryStats(p) ==
    pc[p] \in {"gms_rlock", "gms_cmp", "gms_write", "gms_alert", "gms_call",
               "gms_handler", "h_rlock", "h_read", "gms_runlock"}

\* C28: under fair scheduling every GetMemoryStats call eventually returns,
\* whatever GetMemoryStats, GetMaxAlloc and SetAlertHandler calls run
\* concurrently, the alert handler being one that may read GetMaxAlloc of the
\* same monitor.
C28_EveryCallReturns ==
    \A p \in Procs : InGetMemoryStats(p) ~> (pc[p] = "idle")

\* C29: whenever main has ended by one of its own exit paths after
\* initializeApp succeeded (its return after waitForShutdown, or the exit after
\* startServer returned an error), cleanup has run: the shared context is
\* cancelled and the MongoDB connection is closed.
C29_CleanupOnEveryExit ==
    mpc = "exited" => (ctxDone /\ ~mongoOpen)

\* The waits of the claim, in seconds, after n failed attempts.
Waits(n) == SubSeq(<<1, 2, 4, 8>>, 1, IF n < 4 THEN n ELSE 4)

\* C30: NewMongo and NewDatabase begin at most 5 attempts; an attempt is
\* begun only if every earlier one failed, and each failure is logged with
\* its number; between failed attempts the function has slept 1s, 2s, 4s, 8s
\* in this order and nothing after the fifth; it returns the connection only
\* from an attempt in which every call succeeded (Connect and Ping for
\* NewMongo, Open for NewDatabase) and an error exactly when 5 attempts failed.
C30_RetryWithBackoff ==
    /\ conn.tries <= 5
    /\ conn.tries - Len(conn.logged) \in {0, 1}
    /\ \A k \in 1..Len(conn.logged) :
          conn.logged[k].attempt = k /\ conn.logged[k].err # Nil
    /\ conn.pos # "failed" => conn.slept = Waits(Len(conn.logged))
    /\ conn.pos = "returned" =>
          /\ conn.ret = "error" <=> Len(conn.logged) = 5
          /\ conn.ret = "ok" <=>
                /\ conn.tries = Len(conn.logged) + 1
                /\ conn.ok = (IF conn.fn = "NewMongo"
                              THEN {"Connect", "Ping"} ELSE {"Open"})

\* C30 witness: NewMongo has returned an error after five failed attempts,
\* one of them with Connect succeeding and Ping failing, having slept 1, 2, 4
\* and 8 seconds.
C30_Witness ==
    /\ conn.fn = "NewMongo" /\ conn.pos = "returned" /\ conn.ret = "error"
    /\ conn.tries = 5 /\ conn.slept = <<1, 2, 4, 8>>
    /\ \E k \in 1..Len(conn.logged) : conn.logged[k].err = "ping"

====
